---- MODULE Spec2Model ----
(***************************************************************************)
(* A model of the gobriva client (BRI virtual-account API): the token      *)
(* lifecycle of the default authenticator, the seven virtual-account       *)
(* operations and their classification of the HTTP outcome, and the        *)
(* response-code catalog.                                                  *)
(*                                                                         *)
(* Time is a discrete clock `now`; the zero time.Time is 0 and the clock   *)
(* starts at 1. A response code is a sequence of one-character strings,    *)
(* so that its length and its digits are computed as the code computes     *)
(* them. A body is what json.Unmarshal makes of it: whether it parses and, *)
(* when it does, the fields it carries.                                    *)
(***************************************************************************)
EXTENDS Integers, Sequences, FiniteSets, TLC

\* ------------------------------------------------------------------ bounds

\* The clock runs from 1 to MaxTime.
MaxTime == 3

\* A token response carries expiresIn in -1 .. MaxExpiresIn.
MaxExpiresIn == 2

\* ------------------------------------------------------------- value sets

Callers == {"c1", "c2"}

\* accessToken values a token response may carry ("" is the empty string).
Tokens == {"", "tokA", "tokB"}

ExpiresInValues == (0 - 1) .. MaxExpiresIn

StatusOK == 200

\* HTTP statuses the transport may deliver.
StatusCodes == {StatusOK, 201, 400, 401, 500}

\* Config.PrivateKey, by what authenticate makes of it.
PrivateKeys == {"rsa", "not-pem", "not-rsa", "unsignable"}

\* Config.Authenticator: nil (the default authenticator) or a custom one.
Authenticators == {"default", "custom"}

\* responseCode values of the bodies the transport may deliver: catalog
\* entries, 7-digit codes absent from the catalog, and malformed codes.
ResponseCodes ==
  { <<"2","0","0","2","7","0","0">>, <<"4","0","0","2","7","0","1">>,
    <<"4","0","1","2","7","0","3">>, <<"4","0","3","2","7","0","1">>,
    <<"4","0","4","2","7","0","1">>, <<"4","0","9","2","7","0","1">>,
    <<"5","0","2","2","7","0","1">>, <<"5","0","3","2","7","0","1">>,
    <<"9","9","9","9","9","9","9">>, <<"4","0","0","9","9","9","9">>,
    <<"4","0","x","2","7","0","1">>, <<"4","0","0">>, <<>> }

ResponseMessages == {"", "Invalid Field Format"}

\* The seven virtual-account operations: method and path of each.
VAOps ==
  { "CreateVirtualAccount", "UpdateVirtualAccount", "UpdateVirtualAccountStatus",
    "InquiryVirtualAccount", "DeleteVirtualAccount", "GetVirtualAccountReport",
    "InquiryVirtualAccountStatus" }

VAMethod(o) ==
  CASE o = "CreateVirtualAccount" -> "POST"
    [] o = "UpdateVirtualAccount" -> "PUT"
    [] o = "UpdateVirtualAccountStatus" -> "PUT"
    [] o = "InquiryVirtualAccount" -> "POST"
    [] o = "DeleteVirtualAccount" -> "DELETE"
    [] o = "GetVirtualAccountReport" -> "POST"
    [] o = "InquiryVirtualAccountStatus" -> "POST"

VAPath(o) ==
  CASE o = "CreateVirtualAccount" -> "/snap/v1.0/transfer-va/create-va"
    [] o = "UpdateVirtualAccount" -> "/snap/v1.0/transfer-va/update-va"
    [] o = "UpdateVirtualAccountStatus" -> "/snap/v1.0/transfer-va/update-status"
    [] o = "InquiryVirtualAccount" -> "/snap/v1.0/transfer-va/inquiry-va"
    [] o = "DeleteVirtualAccount" -> "/snap/v1.0/transfer-va/delete-va"
    [] o = "GetVirtualAccountReport" -> "/snap/v1.0/transfer-va/report"
    [] o = "InquiryVirtualAccountStatus" -> "/snap/v1.0/transfer-va/status"

\* ------------------------------------------------- response-code catalog

brivaResponseDefinitions ==
     <<"2","0","0","2","6","0","0">> :> [ResponseCode |-> [HTTPStatus |-> 200, ServiceCode |-> 26, CaseCode |-> 0, FullCode |-> <<"2","0","0","2","6","0","0">>],
        Category |-> "Success", Description |-> <<"Inquiry status successful">>, Field |-> ""]
  @@
     <<"2","0","0","2","7","0","0">> :> [ResponseCode |-> [HTTPStatus |-> 200, ServiceCode |-> 27, CaseCode |-> 0, FullCode |-> <<"2","0","0","2","7","0","0">>],
        Category |-> "Success", Description |-> <<"Request processed successfully">>, Field |-> ""]
  @@
     <<"2","0","0","2","7","0","1">> :> [ResponseCode |-> [HTTPStatus |-> 200, ServiceCode |-> 27, CaseCode |-> 1, FullCode |-> <<"2","0","0","2","7","0","1">>],
        Category |-> "Success", Description |-> <<"Virtual Account created successfully">>, Field |-> ""]
  @@
     <<"2","0","0","2","8","0","0">> :> [ResponseCode |-> [HTTPStatus |-> 200, ServiceCode |-> 28, CaseCode |-> 0, FullCode |-> <<"2","0","0","2","8","0","0">>],
        Category |-> "Success", Description |-> <<"Virtual Account updated successfully">>, Field |-> ""]
  @@
     <<"2","0","0","2","9","0","0">> :> [ResponseCode |-> [HTTPStatus |-> 200, ServiceCode |-> 29, CaseCode |-> 0, FullCode |-> <<"2","0","0","2","9","0","0">>],
        Category |-> "Success", Description |-> <<"Virtual Account status updated successfully">>, Field |-> ""]
  @@
     <<"2","0","0","3","0","0","0">> :> [ResponseCode |-> [HTTPStatus |-> 200, ServiceCode |-> 30, CaseCode |-> 0, FullCode |-> <<"2","0","0","3","0","0","0">>],
        Category |-> "Success", Description |-> <<"Virtual Account inquiry successful">>, Field |-> ""]
  @@
     <<"2","0","0","3","1","0","0">> :> [ResponseCode |-> [HTTPStatus |-> 200, ServiceCode |-> 31, CaseCode |-> 0, FullCode |-> <<"2","0","0","3","1","0","0">>],
        Category |-> "Success", Description |-> <<"Virtual Account deleted successfully">>, Field |-> ""]
  @@
     <<"2","0","0","3","5","0","0">> :> [ResponseCode |-> [HTTPStatus |-> 200, ServiceCode |-> 35, CaseCode |-> 0, FullCode |-> <<"2","0","0","3","5","0","0">>],
        Category |-> "Success", Description |-> <<"Report generated successfully">>, Field |-> ""]
  @@
     <<"4","0","0","2","7","0","1">> :> [ResponseCode |-> [HTTPStatus |-> 400, ServiceCode |-> 27, CaseCode |-> 1, FullCode |-> <<"4","0","0","2","7","0","1">>],
        Category |-> "BadRequest", Description |-> <<"Invalid field format">>, Field |-> "virtualAccountNo"]
  @@
     <<"4","0","0","2","7","0","2">> :> [ResponseCode |-> [HTTPStatus |-> 400, ServiceCode |-> 27, CaseCode |-> 2, FullCode |-> <<"4","0","0","2","7","0","2">>],
        Category |-> "BadRequest", Description |-> <<"Invalid mandatory field">>, Field |-> "partnerServiceId"]
  @@
     <<"4","0","0","2","7","0","3">> :> [ResponseCode |-> [HTTPStatus |-> 400, ServiceCode |-> 27, CaseCode |-> 3, FullCode |-> <<"4","0","0","2","7","0","3">>],
        Category |-> "BadRequest", Description |-> <<"Invalid field value">>, Field |-> ""]
  @@
     <<"4","0","0","2","7","0","4">> :> [ResponseCode |-> [HTTPStatus |-> 400, ServiceCode |-> 27, CaseCode |-> 4, FullCode |-> <<"4","0","0","2","7","0","4">>],
        Category |-> "BadRequest", Description |-> <<"Invalid amount format or value">>, Field |-> "totalAmount"]
  @@
     <<"4","0","0","2","7","0","5">> :> [ResponseCode |-> [HTTPStatus |-> 400, ServiceCode |-> 27, CaseCode |-> 5, FullCode |-> <<"4","0","0","2","7","0","5">>],
        Category |-> "BadRequest", Description |-> <<"Invalid account information">>, Field |-> ""]
  @@
     <<"4","0","0","2","7","0","6">> :> [ResponseCode |-> [HTTPStatus |-> 400, ServiceCode |-> 27, CaseCode |-> 6, FullCode |-> <<"4","0","0","2","7","0","6">>],
        Category |-> "BadRequest", Description |-> <<"Invalid date format">>, Field |-> "expiredDate"]
  @@
     <<"4","0","0","2","7","0","7">> :> [ResponseCode |-> [HTTPStatus |-> 400, ServiceCode |-> 27, CaseCode |-> 7, FullCode |-> <<"4","0","0","2","7","0","7">>],
        Category |-> "BadRequest", Description |-> <<"Invalid time format">>, Field |-> ""]
  @@
     <<"4","0","0","2","7","0","8">> :> [ResponseCode |-> [HTTPStatus |-> 400, ServiceCode |-> 27, CaseCode |-> 8, FullCode |-> <<"4","0","0","2","7","0","8">>],
        Category |-> "BadRequest", Description |-> <<"Invalid currency code">>, Field |-> "currency"]
  @@
     <<"4","0","0","2","7","0","9">> :> [ResponseCode |-> [HTTPStatus |-> 400, ServiceCode |-> 27, CaseCode |-> 9, FullCode |-> <<"4","0","0","2","7","0","9">>],
        Category |-> "BadRequest", Description |-> <<"Invalid partner service ID">>, Field |-> "partnerServiceId"]
  @@
     <<"4","0","0","2","7","1","0">> :> [ResponseCode |-> [HTTPStatus |-> 400, ServiceCode |-> 27, CaseCode |-> 10, FullCode |-> <<"4","0","0","2","7","1","0">>],
        Category |-> "BadRequest", Description |-> <<"Invalid customer number">>, Field |-> "customerNo"]
  @@
     <<"4","0","0","2","7","1","1">> :> [ResponseCode |-> [HTTPStatus |-> 400, ServiceCode |-> 27, CaseCode |-> 11, FullCode |-> <<"4","0","0","2","7","1","1">>],
        Category |-> "BadRequest", Description |-> <<"Invalid virtual account number">>, Field |-> "virtualAccountNo"]
  @@
     <<"4","0","0","2","7","1","2">> :> [ResponseCode |-> [HTTPStatus |-> 400, ServiceCode |-> 27, CaseCode |-> 12, FullCode |-> <<"4","0","0","2","7","1","2">>],
        Category |-> "BadRequest", Description |-> <<"Invalid virtual account name">>, Field |-> "virtualAccountName"]
  @@
     <<"4","0","0","2","7","1","3">> :> [ResponseCode |-> [HTTPStatus |-> 400, ServiceCode |-> 27, CaseCode |-> 13, FullCode |-> <<"4","0","0","2","7","1","3">>],
        Category |-> "BadRequest", Description |-> <<"Invalid transaction ID">>, Field |-> "trxId"]
  @@
     <<"4","0","0","2","7","1","4">> :> [ResponseCode |-> [HTTPStatus |-> 400, ServiceCode |-> 27, CaseCode |-> 14, FullCode |-> <<"4","0","0","2","7","1","4">>],
        Category |-> "BadRequest", Description |-> <<"Invalid paid status">>, Field |-> "paidStatus"]
  @@
     <<"4","0","0","2","7","1","5">> :> [ResponseCode |-> [HTTPStatus |-> 400, ServiceCode |-> 27, CaseCode |-> 15, FullCode |-> <<"4","0","0","2","7","1","5">>],
        Category |-> "BadRequest", Description |-> <<"Invalid inquiry request ID">>, Field |-> "inquiryRequestId"]
  @@
     <<"4","0","0","2","7","1","6">> :> [ResponseCode |-> [HTTPStatus |-> 400, ServiceCode |-> 27, CaseCode |-> 16, FullCode |-> <<"4","0","0","2","7","1","6">>],
        Category |-> "BadRequest", Description |-> <<"Invalid report date range">>, Field |-> "startDate"]
  @@
     <<"4","0","0","2","7","1","7">> :> [ResponseCode |-> [HTTPStatus |-> 400, ServiceCode |-> 27, CaseCode |-> 17, FullCode |-> <<"4","0","0","2","7","1","7">>],
        Category |-> "BadRequest", Description |-> <<"Invalid report time range">>, Field |-> "startTime"]
  @@
     <<"4","0","0","2","6","0","0">> :> [ResponseCode |-> [HTTPStatus |-> 400, ServiceCode |-> 26, CaseCode |-> 0, FullCode |-> <<"4","0","0","2","6","0","0">>],
        Category |-> "BadRequest", Description |-> <<"Bad Request">>, Field |-> ""]
  @@
     <<"4","0","0","2","6","0","1">> :> [ResponseCode |-> [HTTPStatus |-> 400, ServiceCode |-> 26, CaseCode |-> 1, FullCode |-> <<"4","0","0","2","6","0","1">>],
        Category |-> "BadRequest", Description |-> <<"Invalid Field Format">>, Field |-> ""]
  @@
     <<"4","0","0","2","6","0","2">> :> [ResponseCode |-> [HTTPStatus |-> 400, ServiceCode |-> 26, CaseCode |-> 2, FullCode |-> <<"4","0","0","2","6","0","2">>],
        Category |-> "BadRequest", Description |-> <<"Invalid Mandatory Field">>, Field |-> ""]
  @@
     <<"4","0","1","2","7","0","1">> :> [ResponseCode |-> [HTTPStatus |-> 401, ServiceCode |-> 27, CaseCode |-> 1, FullCode |-> <<"4","0","1","2","7","0","1">>],
        Category |-> "Unauthorized", Description |-> <<"Invalid signature">>, Field |-> ""]
  @@
     <<"4","0","1","2","7","0","2">> :> [ResponseCode |-> [HTTPStatus |-> 401, ServiceCode |-> 27, CaseCode |-> 2, FullCode |-> <<"4","0","1","2","7","0","2">>],
        Category |-> "Unauthorized", Description |-> <<"Invalid timestamp">>, Field |-> ""]
  @@
     <<"4","0","1","2","7","0","3">> :> [ResponseCode |-> [HTTPStatus |-> 401, ServiceCode |-> 27, CaseCode |-> 3, FullCode |-> <<"4","0","1","2","7","0","3">>],
        Category |-> "Unauthorized", Description |-> <<"Invalid access token">>, Field |-> ""]
  @@
     <<"4","0","1","2","7","0","4">> :> [ResponseCode |-> [HTTPStatus |-> 401, ServiceCode |-> 27, CaseCode |-> 4, FullCode |-> <<"4","0","1","2","7","0","4">>],
        Category |-> "Unauthorized", Description |-> <<"Access token expired">>, Field |-> ""]
  @@
     <<"4","0","1","2","7","0","5">> :> [ResponseCode |-> [HTTPStatus |-> 401, ServiceCode |-> 27, CaseCode |-> 5, FullCode |-> <<"4","0","1","2","7","0","5">>],
        Category |-> "Unauthorized", Description |-> <<"Invalid credentials">>, Field |-> ""]
  @@
     <<"4","0","1","2","7","0","6">> :> [ResponseCode |-> [HTTPStatus |-> 401, ServiceCode |-> 27, CaseCode |-> 6, FullCode |-> <<"4","0","1","2","7","0","6">>],
        Category |-> "Unauthorized", Description |-> <<"Invalid client key">>, Field |-> ""]
  @@
     <<"4","0","1","2","7","0","7">> :> [ResponseCode |-> [HTTPStatus |-> 401, ServiceCode |-> 27, CaseCode |-> 7, FullCode |-> <<"4","0","1","2","7","0","7">>],
        Category |-> "Unauthorized", Description |-> <<"Invalid private key">>, Field |-> ""]
  @@
     <<"4","0","1","2","6","0","0">> :> [ResponseCode |-> [HTTPStatus |-> 401, ServiceCode |-> 26, CaseCode |-> 0, FullCode |-> <<"4","0","1","2","6","0","0">>],
        Category |-> "Unauthorized", Description |-> <<"Unauthorized. Client Forbidden Access API">>, Field |-> ""]
  @@
     <<"4","0","3","2","7","0","1">> :> [ResponseCode |-> [HTTPStatus |-> 403, ServiceCode |-> 27, CaseCode |-> 1, FullCode |-> <<"4","0","3","2","7","0","1">>],
        Category |-> "Forbidden", Description |-> <<"Insufficient permission">>, Field |-> ""]
  @@
     <<"4","0","3","2","7","0","2">> :> [ResponseCode |-> [HTTPStatus |-> 403, ServiceCode |-> 27, CaseCode |-> 2, FullCode |-> <<"4","0","3","2","7","0","2">>],
        Category |-> "Forbidden", Description |-> <<"Access denied">>, Field |-> ""]
  @@
     <<"4","0","3","2","7","0","3">> :> [ResponseCode |-> [HTTPStatus |-> 403, ServiceCode |-> 27, CaseCode |-> 3, FullCode |-> <<"4","0","3","2","7","0","3">>],
        Category |-> "Forbidden", Description |-> <<"Partner not active">>, Field |-> ""]
  @@
     <<"4","0","3","2","7","0","4">> :> [ResponseCode |-> [HTTPStatus |-> 403, ServiceCode |-> 27, CaseCode |-> 4, FullCode |-> <<"4","0","3","2","7","0","4">>],
        Category |-> "Forbidden", Description |-> <<"Channel not allowed">>, Field |-> ""]
  @@
     <<"4","0","3","2","7","0","5">> :> [ResponseCode |-> [HTTPStatus |-> 403, ServiceCode |-> 27, CaseCode |-> 5, FullCode |-> <<"4","0","3","2","7","0","5">>],
        Category |-> "Forbidden", Description |-> <<"IP not whitelisted">>, Field |-> ""]
  @@
     <<"4","0","4","2","7","0","1">> :> [ResponseCode |-> [HTTPStatus |-> 404, ServiceCode |-> 27, CaseCode |-> 1, FullCode |-> <<"4","0","4","2","7","0","1">>],
        Category |-> "NotFound", Description |-> <<"Virtual Account not found">>, Field |-> ""]
  @@
     <<"4","0","4","2","7","0","2">> :> [ResponseCode |-> [HTTPStatus |-> 404, ServiceCode |-> 27, CaseCode |-> 2, FullCode |-> <<"4","0","4","2","7","0","2">>],
        Category |-> "NotFound", Description |-> <<"Customer not found">>, Field |-> ""]
  @@
     <<"4","0","4","2","7","0","3">> :> [ResponseCode |-> [HTTPStatus |-> 404, ServiceCode |-> 27, CaseCode |-> 3, FullCode |-> <<"4","0","4","2","7","0","3">>],
        Category |-> "NotFound", Description |-> <<"Partner service not found">>, Field |-> ""]
  @@
     <<"4","0","4","2","7","0","4">> :> [ResponseCode |-> [HTTPStatus |-> 404, ServiceCode |-> 27, CaseCode |-> 4, FullCode |-> <<"4","0","4","2","7","0","4">>],
        Category |-> "NotFound", Description |-> <<"Transaction not found">>, Field |-> ""]
  @@
     <<"4","0","4","2","6","1","2">> :> [ResponseCode |-> [HTTPStatus |-> 404, ServiceCode |-> 26, CaseCode |-> 12, FullCode |-> <<"4","0","4","2","6","1","2">>],
        Category |-> "NotFound", Description |-> <<"Invalid Bill/Virtual Account">>, Field |-> ""]
  @@
     <<"4","0","4","2","6","1","3">> :> [ResponseCode |-> [HTTPStatus |-> 404, ServiceCode |-> 26, CaseCode |-> 13, FullCode |-> <<"4","0","4","2","6","1","3">>],
        Category |-> "NotFound", Description |-> <<"Invalid Amount">>, Field |-> ""]
  @@
     <<"4","0","5","2","7","0","1">> :> [ResponseCode |-> [HTTPStatus |-> 405, ServiceCode |-> 27, CaseCode |-> 1, FullCode |-> <<"4","0","5","2","7","0","1">>],
        Category |-> "MethodNotAllowed", Description |-> <<"HTTP method not allowed">>, Field |-> ""]
  @@
     <<"4","0","5","2","7","0","2">> :> [ResponseCode |-> [HTTPStatus |-> 405, ServiceCode |-> 27, CaseCode |-> 2, FullCode |-> <<"4","0","5","2","7","0","2">>],
        Category |-> "MethodNotAllowed", Description |-> <<"HTTP method not allowed for this endpoint">>, Field |-> ""]
  @@
     <<"4","0","9","2","7","0","1">> :> [ResponseCode |-> [HTTPStatus |-> 409, ServiceCode |-> 27, CaseCode |-> 1, FullCode |-> <<"4","0","9","2","7","0","1">>],
        Category |-> "Conflict", Description |-> <<"Virtual Account already exists">>, Field |-> ""]
  @@
     <<"4","0","9","2","7","0","2">> :> [ResponseCode |-> [HTTPStatus |-> 409, ServiceCode |-> 27, CaseCode |-> 2, FullCode |-> <<"4","0","9","2","7","0","2">>],
        Category |-> "Conflict", Description |-> <<"Virtual Account number already exists">>, Field |-> ""]
  @@
     <<"4","0","9","2","7","0","3">> :> [ResponseCode |-> [HTTPStatus |-> 409, ServiceCode |-> 27, CaseCode |-> 3, FullCode |-> <<"4","0","9","2","7","0","3">>],
        Category |-> "Conflict", Description |-> <<"Transaction ID already exists">>, Field |-> ""]
  @@
     <<"4","0","9","2","7","0","4">> :> [ResponseCode |-> [HTTPStatus |-> 409, ServiceCode |-> 27, CaseCode |-> 4, FullCode |-> <<"4","0","9","2","7","0","4">>],
        Category |-> "Conflict", Description |-> <<"Customer number already exists">>, Field |-> ""]
  @@
     <<"4","0","9","2","6","0","1">> :> [ResponseCode |-> [HTTPStatus |-> 409, ServiceCode |-> 26, CaseCode |-> 1, FullCode |-> <<"4","0","9","2","6","0","1">>],
        Category |-> "Conflict", Description |-> <<"Conflict">>, Field |-> ""]
  @@
     <<"5","0","0","2","7","0","1">> :> [ResponseCode |-> [HTTPStatus |-> 500, ServiceCode |-> 27, CaseCode |-> 1, FullCode |-> <<"5","0","0","2","7","0","1">>],
        Category |-> "InternalServerError", Description |-> <<"Internal server error">>, Field |-> ""]
  @@
     <<"5","0","0","2","7","0","2">> :> [ResponseCode |-> [HTTPStatus |-> 500, ServiceCode |-> 27, CaseCode |-> 2, FullCode |-> <<"5","0","0","2","7","0","2">>],
        Category |-> "InternalServerError", Description |-> <<"Database error">>, Field |-> ""]
  @@
     <<"5","0","0","2","7","0","3">> :> [ResponseCode |-> [HTTPStatus |-> 500, ServiceCode |-> 27, CaseCode |-> 3, FullCode |-> <<"5","0","0","2","7","0","3">>],
        Category |-> "InternalServerError", Description |-> <<"External service error">>, Field |-> ""]
  @@
     <<"5","0","0","2","7","0","4">> :> [ResponseCode |-> [HTTPStatus |-> 500, ServiceCode |-> 27, CaseCode |-> 4, FullCode |-> <<"5","0","0","2","7","0","4">>],
        Category |-> "InternalServerError", Description |-> <<"System under maintenance">>, Field |-> ""]
  @@
     <<"5","0","0","2","7","0","5">> :> [ResponseCode |-> [HTTPStatus |-> 500, ServiceCode |-> 27, CaseCode |-> 5, FullCode |-> <<"5","0","0","2","7","0","5">>],
        Category |-> "InternalServerError", Description |-> <<"System unavailable">>, Field |-> ""]
  @@
     <<"5","0","0","2","6","0","0">> :> [ResponseCode |-> [HTTPStatus |-> 500, ServiceCode |-> 26, CaseCode |-> 0, FullCode |-> <<"5","0","0","2","6","0","0">>],
        Category |-> "InternalServerError", Description |-> <<"General Error">>, Field |-> ""]
  @@
     <<"5","0","2","2","7","0","1">> :> [ResponseCode |-> [HTTPStatus |-> 502, ServiceCode |-> 27, CaseCode |-> 1, FullCode |-> <<"5","0","2","2","7","0","1">>],
        Category |-> "BadGateway", Description |-> <<"Bad gateway">>, Field |-> ""]
  @@
     <<"5","0","2","2","7","0","2">> :> [ResponseCode |-> [HTTPStatus |-> 502, ServiceCode |-> 27, CaseCode |-> 2, FullCode |-> <<"5","0","2","2","7","0","2">>],
        Category |-> "BadGateway", Description |-> <<"External service timeout">>, Field |-> ""]
  @@
     <<"5","0","4","2","7","0","0">> :> [ResponseCode |-> [HTTPStatus |-> 504, ServiceCode |-> 27, CaseCode |-> 0, FullCode |-> <<"5","0","4","2","7","0","0">>],
        Category |-> "ServiceUnavailable", Description |-> <<"Timeout">>, Field |-> ""]
  @@
     <<"5","0","4","2","6","0","0">> :> [ResponseCode |-> [HTTPStatus |-> 504, ServiceCode |-> 26, CaseCode |-> 0, FullCode |-> <<"5","0","4","2","6","0","0">>],
        Category |-> "ServiceUnavailable", Description |-> <<"Timeout">>, Field |-> ""]
  @@
     <<"5","0","3","2","7","0","1">> :> [ResponseCode |-> [HTTPStatus |-> 503, ServiceCode |-> 27, CaseCode |-> 1, FullCode |-> <<"5","0","3","2","7","0","1">>],
        Category |-> "ServiceUnavailable", Description |-> <<"Service unavailable">>, Field |-> ""]
  @@
     <<"5","0","3","2","7","0","2">> :> [ResponseCode |-> [HTTPStatus |-> 503, ServiceCode |-> 27, CaseCode |-> 2, FullCode |-> <<"5","0","3","2","7","0","2">>],
        Category |-> "ServiceUnavailable", Description |-> <<"Rate limit exceeded">>, Field |-> ""]
  @@
     <<"5","0","3","2","7","0","3">> :> [ResponseCode |-> [HTTPStatus |-> 503, ServiceCode |-> 27, CaseCode |-> 3, FullCode |-> <<"5","0","3","2","7","0","3">>],
        Category |-> "ServiceUnavailable", Description |-> <<"Circuit breaker open">>, Field |-> ""]

Digits == {"0", "1", "2", "3", "4", "5", "6", "7", "8", "9"}

DigitValue(ch) ==
  CASE ch = "0" -> 0 [] ch = "1" -> 1 [] ch = "2" -> 2 [] ch = "3" -> 3
    [] ch = "4" -> 4 [] ch = "5" -> 5 [] ch = "6" -> 6 [] ch = "7" -> 7
    [] ch = "8" -> 8 [] ch = "9" -> 9

\* isDigitString: every character is in '0'..'9' (true of the empty string).
isDigitString(s) == \A i \in 1 .. Len(s) : s[i] \in Digits

\* strconv.Atoi of code[0:3], called only on three digits.
Atoi3(s) == 100 * DigitValue(s[1]) + 10 * DigitValue(s[2]) + DigitValue(s[3])

\* A variant of getPendingResponseDefinition whose server-error band has no
\* upper end.
getPendingResponseDefinition_5xxOpen(code) ==
  LET httpStatus == IF Len(code) = 7 /\ isDigitString(code) THEN Atoi3(code) ELSE 500
  IN [ResponseCode |-> [HTTPStatus |-> httpStatus, ServiceCode |-> 0, CaseCode |-> 0,
                        FullCode |-> code],
      Category |->
        IF httpStatus >= 200 /\ httpStatus < 300 THEN "Success"
        ELSE IF httpStatus >= 400 /\ httpStatus < 500 THEN "BadRequest"
        ELSE IF httpStatus >= 500 THEN "InternalServerError"
        ELSE "Pending",
      Description |-> <<"Unknown response code: ", code,
                        " - Status pending, requires manual verification">>,
      Field |-> ""]

\* A variant of getPendingResponseDefinition that parses the first three
\* characters of any digit string of at least three, as
\* NewStructuredBRIAPIResponse does.
getPendingResponseDefinition_AnyLength(code) ==
  LET httpStatus == IF Len(code) >= 3 /\ isDigitString(code) THEN Atoi3(code) ELSE 500
  IN [ResponseCode |-> [HTTPStatus |-> httpStatus, ServiceCode |-> 0, CaseCode |-> 0,
                        FullCode |-> code],
      Category |->
        IF httpStatus >= 200 /\ httpStatus < 300 THEN "Success"
        ELSE IF httpStatus >= 400 /\ httpStatus < 500 THEN "BadRequest"
        ELSE IF httpStatus >= 500 /\ httpStatus < 600 THEN "InternalServerError"
        ELSE "Pending",
      Description |-> <<"Unknown response code: ", code,
                        " - Status pending, requires manual verification">>,
      Field |-> ""]

getPendingResponseDefinition(code) ==
  LET httpStatus == IF Len(code) = 7 /\ isDigitString(code) THEN Atoi3(code) ELSE 500
  IN [ResponseCode |-> [HTTPStatus |-> httpStatus, ServiceCode |-> 0, CaseCode |-> 0,
                        FullCode |-> code],
      Category |->
        IF httpStatus >= 200 /\ httpStatus < 300 THEN "Success"
        ELSE IF httpStatus >= 400 /\ httpStatus < 500 THEN "BadRequest"
        ELSE IF httpStatus >= 500 /\ httpStatus < 600 THEN "InternalServerError"
        ELSE "Pending",
      Description |-> <<"Unknown response code: ", code,
                        " - Status pending, requires manual verification">>,
      Field |-> ""]

\* A variant of GetBRIVAResponseDefinition that consults the catalog only for
\* the codes of successful outcomes.
GetBRIVAResponseDefinition_SuccessOnly(code) ==
  IF code \in DOMAIN brivaResponseDefinitions /\ code[1] = "2"
  THEN brivaResponseDefinitions[code]
  ELSE getPendingResponseDefinition(code)

GetBRIVAResponseDefinition(code) ==
  IF code \in DOMAIN brivaResponseDefinitions
  THEN brivaResponseDefinitions[code]
  ELSE getPendingResponseDefinition(code)

\* StructuredBRIAPIResponse.GetCategory: by the HTTP status of the response.
GetCategory(e) ==
  IF e.HTTPStatusCode >= 200 /\ e.HTTPStatusCode < 300 THEN "Success"
  ELSE IF e.HTTPStatusCode >= 400 /\ e.HTTPStatusCode < 500 THEN "BadRequest"
  ELSE IF e.HTTPStatusCode >= 500 /\ e.HTTPStatusCode < 600 THEN "InternalServerError"
  ELSE "Pending"

IsPending(e) == GetCategory(e) = "Pending"

\* ------------------------------------------------------ request signature

\* generateTimestamp: the clock reading n in the layout
\* 2006-01-02T15:04:05.000Z07:00, in UTC.
generateTimestamp(n) == "2024-01-01T00:00:0" \o ToString(n) \o ".000Z"

\* fmt.Sprintf("%x", sha256.Sum256([]byte(s))): SHA-256 is taken to be
\* injective, so the digest is written as a term over the string it digests.
SHA256Hex(s) == "sha256(" \o s \o ")"

\* base64 of the HMAC-SHA512 of payload under key, taken to be injective in
\* (key, payload); no key of the model holds a comma.
HMACSHA512Base64(key, payload) == "hmac-sha512(" \o key \o "," \o payload \o ")"

\* A variant of calculateSignature whose payload leaves the path out.
calculateSignature_PathUnsigned(httpMethod, requestPath, requestBody, token, secret, timestamp) ==
  LET bodyStr == IF httpMethod # "GET" /\ requestBody # "" THEN requestBody ELSE ""
      payload == httpMethod \o ":" \o token \o ":" \o SHA256Hex(bodyStr) \o ":" \o timestamp
  IN HMACSHA512Base64(secret, payload)

\* A variant of calculateSignature that digests the body whatever the method.
calculateSignature_BodyAlwaysDigested(httpMethod, requestPath, requestBody, token, secret, timestamp) ==
  LET payload == httpMethod \o ":" \o requestPath \o ":" \o token \o ":"
                   \o SHA256Hex(requestBody) \o ":" \o timestamp
  IN HMACSHA512Base64(secret, payload)

\* Client.calculateSignature(httpMethod, requestPath, requestBody), with what
\* it reads besides its arguments made explicit: c.accessToken, c.clientSecret
\* and the timestamp generateTimestamp gives it.
calculateSignature(httpMethod, requestPath, requestBody, token, secret, timestamp) ==
  LET bodyStr == IF httpMethod # "GET" /\ requestBody # "" THEN requestBody ELSE ""
      payload == httpMethod \o ":" \o requestPath \o ":" \o token \o ":"
                   \o SHA256Hex(bodyStr) \o ":" \o timestamp
  IN HMACSHA512Base64(secret, payload)

\* rand.Intn(ExternalIDLimit) draws from 0 .. ExternalIDLimit - 1.
ExternalIDLimit == 999999999

ExternalIDValues == {42, ExternalIDLimit - 1}

\* fmt.Sprintf("%09d", n) for n >= 0: the decimal digits of n, padded with
\* zeros on the left to nine characters.
RECURSIVE PadZeros9(_)
PadZeros9(s) == IF Len(s) >= 9 THEN s ELSE PadZeros9("0" \o s)

\* A variant of generateExternalID that does not pad.
generateExternalID_Unpadded(n) == ToString(n)

generateExternalID(n) == PadZeros9(ToString(n))

\* Config.PartnerID, ClientID, ClientSecret, ChannelID, IsSandbox and
\* HTTPClient (nil, for the default transport, or a custom one) of a client.
Credentials ==
  { [partnerID |-> "partnerA", clientID |-> "clientA", clientSecret |-> "secretA",
     channelID |-> "channelA", isSandbox |-> TRUE, httpClient |-> "custom"],
    [partnerID |-> "partnerB", clientID |-> "clientB", clientSecret |-> "secretB",
     channelID |-> "channelB", isSandbox |-> FALSE, httpClient |-> "default"] }

productionBaseURL == "https://partner.api.bri.co.id"

sandboxBaseURL == "https://sandbox.partner.api.bri.co.id"

\* json.Marshal of the request a VA operation is called with: of a nil
\* request, and of a request with fields.
RequestBodies == {"null", "{\"partnerServiceId\":\"   12345\"}"}

\* Arguments calculateSignature is called with directly.
SignMethods == {"GET", "POST", "DELETE"}

SignPaths == {"/snap/v1.0/transfer-va/create-va", "/snap", "/snap:v1"}

SignBodies == {"", "null", "{\"partnerServiceId\":\"   12345\"}"}

\* The codes GetBRIVAResponseDefinition is called with directly: every key of
\* the catalog; for every hundred, the codes x00, x09, x90 and x99 followed by
\* 9999, none of which is in the catalog; and codes that are not seven digits.
AbsentCodes ==
  { <<a, b, c, "9", "9", "9", "9">> : a \in Digits, b \in {"0", "9"}, c \in {"0", "9"} }

MalformedCodes ==
  { <<>>, <<"4">>, <<"4","0","0">>, <<"4","0","0","2","7","0">>,
    <<"4","0","0","2","7","0","1","1">>, <<"2","0","0","2","7","0","0","0">>,
    <<"4","0","x","2","7","0","1">>, <<"x","0","0","2","7","0","1">>,
    <<"4","0","0","2","7","0","x">>, <<"-","4","0","0","2","7","0">>,
    <<"4","0","0"," ","7","0","1">>, <<"a","b","c">> }

LookupCodes == DOMAIN brivaResponseDefinitions \cup AbsentCodes \cup MalformedCodes

\* ------------------------------------------------------------------ state

VARIABLES
  accessToken,   \* Client.accessToken
  tokenExpiry,   \* Client.tokenExpiry (0 is the zero time)
  now,           \* the wall clock, time.Now()
  auth,          \* Client.auth: the default authenticator or a custom one
  privateKey,    \* Client.privateKey, by what authenticate makes of it
  debug,         \* Client.debug
  partnerID,     \* Client.partnerID
  clientSecret,  \* Client.clientSecret
  channelID,     \* Client.channelID
  baseURL,       \* Client.baseURL
  clientID,      \* Client.clientID
  isSandbox,     \* Client.isSandbox
  httpClient,    \* Client.httpClient: the default transport or a custom one
  pc,            \* per caller: where its call stands
  op,            \* per caller: the call in progress
  arg,           \* per caller: the arguments of a function called directly
  calls,         \* per caller: the HTTP exchanges the call handed to the transport
  req,           \* per caller: the request makeRequest is building
  resp,          \* per caller: what the transport answered to the request in flight
  authErr,       \* per caller: what the authenticator returned to the call
  ret            \* per caller: what the call returned

vars ==
  <<accessToken, tokenExpiry, now, auth, privateKey, debug,
    partnerID, clientSecret, channelID, baseURL, clientID, isSandbox, httpClient,
    pc, op, arg, calls, req, resp, authErr, ret>>

client ==
  <<accessToken, tokenExpiry, auth, privateKey, debug, partnerID, clientSecret,
    channelID, baseURL, clientID, isSandbox, httpClient>>

\* ----------------------------------------------------------------- values

NoErr == [kind |-> "nil"]

NilResp == [kind |-> "nil"]

NoRet == [resp |-> NilResp, err |-> NoErr]

NoReq == [built |-> FALSE]

NoArg == [kind |-> "none"]

NoResp == [kind |-> "none"]

\* fmt.Errorf("<msg>: %w", inner)
Wrap(msg, inner) == [kind |-> "wrap", msg |-> msg, inner |-> inner]

\* An error that is not an API error: a key error, a transport failure, a
\* failed read or a failed decode.
PlainErr(msg) == [kind |-> "plain", msg |-> msg]

TransportErr == PlainErr("network error: connection refused")

\* A body is a JSON object, given by the fields the client reads (a field the
\* object lacks has its zero value), or it is not JSON.
Body(c, m, t, x) ==
  [valid |-> TRUE, responseCode |-> c, responseMessage |-> m,
   accessToken |-> t, expiresIn |-> x]

InvalidBody ==
  [valid |-> FALSE, responseCode |-> <<>>, responseMessage |-> "",
   accessToken |-> "", expiresIn |-> 0]

\* Bodies of the form {"responseCode": ..., "responseMessage": ...}.
VABodies ==
  {InvalidBody} \cup
  { Body(c, m, "", 0) : c \in ResponseCodes, m \in ResponseMessages }

\* Bodies of the form {"accessToken": ..., "expiresIn": ...}, and error bodies.
TokenBodies ==
  {InvalidBody} \cup
  { Body(<<>>, "", t, x) : t \in Tokens, x \in ExpiresInValues } \cup
  { Body(c, "Invalid credentials", "", 0) :
      c \in {<<"4","0","1","2","7","0","5">>, <<"5","0","0","2","7","0","1">>} }

\* What httpClient.Do returns: an error, or a response whose body reads or
\* not. The body of a response is a stream: once drained, there is nothing
\* left in it to read.
TransportFailure == [kind |-> "error"]

Responses(bodies) ==
  { [kind |-> "response", StatusCode |-> s, readable |-> TRUE, drained |-> FALSE,
     body |-> b] :
      s \in StatusCodes, b \in bodies }
  \cup
  { [kind |-> "response", StatusCode |-> s, readable |-> FALSE, drained |-> FALSE,
     body |-> InvalidBody] :
      s \in StatusCodes }

\* A stream over the bytes b: the body of a request.
Stream(b) == [bytes |-> b, drained |-> FALSE]

\* httputil's drainBody: the stream is read to its end.
drainBody(s) == [s EXCEPT !.drained = TRUE]

\* A variant of DumpResponse that leaves the body drained.
DumpResponse_BodyDrained(r) == IF r.readable THEN drainBody(r) ELSE r

\* httputil.DumpResponse(resp, true): the body is drained and resp.Body is set
\* to a reader over the bytes that were read; a body that fails to read is
\* left as it is.
DumpResponse(r) == IF r.readable THEN [drainBody(r) EXCEPT !.drained = FALSE] ELSE r

\* httputil.DumpRequestOut(req, true): the body is drained and req.Body is set
\* to a reader over the bytes that were read.
DumpRequestOut(s) == [drainBody(s) EXCEPT !.drained = FALSE]

\* io.ReadAll(resp.Body) in a VA operation: a drained body reads as no bytes,
\* which is not JSON.
ReadAll(r) ==
  IF r.kind = "response" /\ r.drained THEN [r EXCEPT !.body = InvalidBody] ELSE r

\* The bytes the transport reads from the body of a request.
SentBody(s) == IF s.drained THEN "" ELSE s.bytes

\* A variant of UnmarshalErrorResponse whose responseMessage tag does not match
\* the body's field: ResponseMessage keeps its zero value.
UnmarshalErrorResponse_MessageUnread(body) ==
  IF body.valid
  THEN [ok |-> TRUE, ResponseCode |-> body.responseCode, ResponseMessage |-> ""]
  ELSE [ok |-> FALSE, ResponseCode |-> <<>>, ResponseMessage |-> ""]

\* json.Unmarshal(respBody, &errorResp): the zero value when the body does not parse.
UnmarshalErrorResponse(body) ==
  IF body.valid
  THEN [ok |-> TRUE, ResponseCode |-> body.responseCode,
        ResponseMessage |-> body.responseMessage]
  ELSE [ok |-> FALSE, ResponseCode |-> <<>>, ResponseMessage |-> ""]

\* A variant of UnmarshalAuthResponse whose expiresIn tag does not match the
\* body's field: ExpiresIn keeps its zero value.
UnmarshalAuthResponse_ExpiresInUnread(body) ==
  IF body.valid
  THEN [ok |-> TRUE, AccessToken |-> body.accessToken, ExpiresIn |-> 0]
  ELSE [ok |-> FALSE, AccessToken |-> "", ExpiresIn |-> 0]

\* json.Unmarshal(respBody, &authResp)
UnmarshalAuthResponse(body) ==
  IF body.valid
  THEN [ok |-> TRUE, AccessToken |-> body.accessToken, ExpiresIn |-> body.expiresIn]
  ELSE [ok |-> FALSE, AccessToken |-> "", ExpiresIn |-> 0]

\* ---------------------------------------------------------- authenticator

\* A variant of IsAuthenticated that still accepts the token at its expiry.
IsAuthenticated_AtExpiry == accessToken # "" /\ now <= tokenExpiry

\* DefaultAuthenticator.IsAuthenticated
IsAuthenticated == accessToken # "" /\ now < tokenExpiry

\* ------------------------------------------------------------------- init

Init ==
  /\ accessToken = ""
  /\ tokenExpiry = 0
  /\ now = 1
  /\ auth \in Authenticators
  /\ privateKey \in PrivateKeys
  /\ debug \in BOOLEAN
  /\ \E c \in Credentials :
       /\ partnerID = c.partnerID
       /\ clientSecret = c.clientSecret
       /\ channelID = c.channelID
       /\ clientID = c.clientID
       /\ isSandbox = c.isSandbox
       /\ httpClient = c.httpClient
       /\ baseURL = IF c.isSandbox THEN sandboxBaseURL ELSE productionBaseURL
  /\ pc = [p \in Callers |-> "idle"]
  /\ op = [p \in Callers |-> "none"]
  /\ arg = [p \in Callers |-> NoArg]
  /\ calls = [p \in Callers |-> <<>>]
  /\ req = [p \in Callers |-> NoReq]
  /\ resp = [p \in Callers |-> NoResp]
  /\ authErr = [p \in Callers |-> NoErr]
  /\ ret = [p \in Callers |-> NoRet]

\* ---------------------------------------------------------------- actions

\* time passes
Tick ==
  /\ now < MaxTime
  /\ now' = now + 1
  /\ UNCHANGED <<client, pc, op, arg, calls, req, resp, authErr, ret>>

\* The end of a call: its result is in ret[p].
Finish(p, r) ==
  /\ pc' = [pc EXCEPT ![p] = "done"]
  /\ ret' = [ret EXCEPT ![p] = r]

\* A variant of AfterAuth in which a VA operation goes on to makeRequest
\* whatever the authenticator returned.
AfterAuth_ErrorIgnored(p, e) ==
  /\ authErr' = [authErr EXCEPT ![p] = e]
  /\ IF op[p] \in VAOps
     THEN pc' = [pc EXCEPT ![p] = "sign"] /\ UNCHANGED ret
     ELSE Finish(p, [resp |-> NilResp, err |-> e])

\* What follows EnsureAuthenticated (or Authenticate) returning e in call op[p]:
\* the authenticator's own methods return e; a VA operation returns a nil
\* response and the wrapped error, or goes on to makeRequest.
AfterAuth(p, e) ==
  /\ authErr' = [authErr EXCEPT ![p] = e]
  /\ IF op[p] \in VAOps
     THEN IF e # NoErr
          THEN Finish(p, [resp |-> NilResp, err |-> Wrap("authentication failed", e)])
          ELSE pc' = [pc EXCEPT ![p] = "sign"] /\ UNCHANGED ret
     ELSE Finish(p, [resp |-> NilResp, err |-> e])

\* A caller calls IsAuthenticated on the default authenticator.
CallIsAuthenticated(p) ==
  /\ pc[p] = "idle"
  /\ auth = "default"
  /\ op' = [op EXCEPT ![p] = "IsAuthenticated"]
  /\ Finish(p, [resp |-> [kind |-> "bool", value |-> IsAuthenticated], err |-> NoErr])
  /\ UNCHANGED <<client, now, arg, calls, req, resp, authErr>>

\* A caller calls Authenticate on the default authenticator.
CallAuthenticate(p) ==
  /\ pc[p] = "idle"
  /\ auth = "default"
  /\ op' = [op EXCEPT ![p] = "Authenticate"]
  /\ pc' = [pc EXCEPT ![p] = "auth"]
  /\ UNCHANGED <<client, now, arg, calls, req, resp, authErr, ret>>

\* A caller calls EnsureAuthenticated on the default authenticator.
CallEnsureAuthenticated(p) ==
  /\ pc[p] = "idle"
  /\ auth = "default"
  /\ op' = [op EXCEPT ![p] = "EnsureAuthenticated"]
  /\ pc' = [pc EXCEPT ![p] = "ensure"]
  /\ UNCHANGED <<client, now, arg, calls, req, resp, authErr, ret>>

\* A caller calls one of the seven VA operations.
CallVA(p) ==
  /\ pc[p] = "idle"
  /\ \E o \in VAOps : op' = [op EXCEPT ![p] = o]
  /\ pc' = [pc EXCEPT ![p] = "ensure"]
  /\ UNCHANGED <<client, now, arg, calls, req, resp, authErr, ret>>

\* A caller looks a response code up in the catalog.
CallGetBRIVAResponseDefinition(p) ==
  /\ pc[p] = "idle"
  /\ op' = [op EXCEPT ![p] = "GetBRIVAResponseDefinition"]
  /\ \E code \in LookupCodes :
       /\ arg' = [arg EXCEPT ![p] = [code |-> code]]
       /\ Finish(p, [resp |-> GetBRIVAResponseDefinition(code), err |-> NoErr])
  /\ UNCHANGED <<client, now, calls, req, resp, authErr>>

\* &StructuredBRIAPIResponse{}: every field has its zero value.
ZeroStructuredBRIAPIResponse ==
  [kind |-> "StructuredBRIAPIResponse", ResponseCode |-> <<>>, ResponseMessage |-> "",
   ResponseDefinition |-> NilResp, HTTPStatusCode |-> 0, Timestamp |-> 0]

\* The values GetCategory is called on directly: the zero value, and values
\* with an HTTP status set.
StructuredValues ==
  { [ZeroStructuredBRIAPIResponse EXCEPT !.HTTPStatusCode = s] :
      s \in {0, 302, 600} \cup StatusCodes }

\* A caller calls GetCategory on a StructuredBRIAPIResponse it made itself.
CallGetCategory(p) ==
  /\ pc[p] = "idle"
  /\ op' = [op EXCEPT ![p] = "GetCategory"]
  /\ \E e \in StructuredValues :
       /\ arg' = [arg EXCEPT ![p] = [value |-> e]]
       /\ Finish(p, [resp |-> GetCategory(e), err |-> NoErr])
  /\ UNCHANGED <<client, now, calls, req, resp, authErr>>

\* The numbers rand.Intn returns in two consecutive generateExternalID calls.
ExternalIDDraws == ExternalIDValues \cup {0, 7, 123456789}

\* A caller calls generateExternalID twice in a row, as the package's test does.
CallGenerateExternalID(p) ==
  /\ pc[p] = "idle"
  /\ op' = [op EXCEPT ![p] = "generateExternalID"]
  /\ \E n1 \in ExternalIDDraws, n2 \in ExternalIDDraws :
       /\ arg' = [arg EXCEPT ![p] = [draws |-> <<n1, n2>>]]
       /\ Finish(p, [resp |-> <<generateExternalID(n1), generateExternalID(n2)>>,
                     err |-> NoErr])
  /\ UNCHANGED <<client, now, calls, req, resp, authErr>>

\* A caller calls calculateSignature directly, as the package's tests do.
CallCalculateSignature(p) ==
  /\ pc[p] = "idle"
  /\ op' = [op EXCEPT ![p] = "calculateSignature"]
  /\ \E m \in SignMethods, path \in SignPaths, body \in SignBodies :
       /\ arg' = [arg EXCEPT ![p] =
            [method |-> m, path |-> path, body |-> body, token |-> accessToken,
             secret |-> clientSecret, timestamp |-> generateTimestamp(now)]]
       /\ Finish(p, [resp |-> calculateSignature(m, path, body, accessToken,
                                                 clientSecret, generateTimestamp(now)),
                     err |-> NoErr])
  /\ UNCHANGED <<client, now, calls, req, resp, authErr>>

\* A variant of EnsureAuthenticated that lets one caller at a time through
\* the check while another is authenticating.
EnsureAuthenticated_OneAtATime(p) ==
  /\ pc[p] = "ensure"
  /\ auth = "default"
  /\ \A q \in Callers \ {p} : pc[q] \notin {"auth", "authWait", "storeExpiry", "storeToken"}
  /\ IF ~IsAuthenticated
     THEN pc' = [pc EXCEPT ![p] = "auth"] /\ UNCHANGED <<authErr, ret>>
     ELSE AfterAuth(p, NoErr)
  /\ UNCHANGED <<client, now, op, arg, calls, req, resp>>

\* A variant of EnsureAuthenticated that authenticates without checking.
EnsureAuthenticated_Unchecked(p) ==
  /\ pc[p] = "ensure"
  /\ auth = "default"
  /\ pc' = [pc EXCEPT ![p] = "auth"]
  /\ UNCHANGED <<client, now, op, arg, calls, req, resp, authErr, ret>>

\* DefaultAuthenticator.EnsureAuthenticated: nothing to do when authenticated,
\* Authenticate otherwise.
EnsureAuthenticated(p) ==
  /\ pc[p] = "ensure"
  /\ auth = "default"
  /\ IF ~IsAuthenticated
     THEN pc' = [pc EXCEPT ![p] = "auth"] /\ UNCHANGED <<authErr, ret>>
     ELSE AfterAuth(p, NoErr)
  /\ UNCHANGED <<client, now, op, arg, calls, req, resp>>

\* A custom Authenticator's EnsureAuthenticated: any implementation, so it
\* returns nil or an error; it has no access to the client's token.
CustomEnsureAuthenticated(p) ==
  /\ pc[p] = "ensure"
  /\ auth = "custom"
  /\ \E e \in {NoErr, PlainErr("authentication failed: invalid credentials")} :
       AfterAuth(p, e)
  /\ UNCHANGED <<client, now, op, arg, calls, req, resp>>

\* Client.authenticate, before the exchange: the RSA assertion over
\* clientID|timestamp is built from the private key, which fails for a key
\* that is no PEM block, holds no RSA key, or cannot sign.
buildAssertion(key) ==
  IF key = "not-pem" THEN PlainErr("failed to decode PEM block")
  ELSE IF key = "not-rsa" THEN PlainErr("not an RSA private key")
  ELSE IF key = "unsignable" THEN PlainErr("failed to sign")
  ELSE NoErr

\* Client.authenticate, after the exchange: the error it returns for the
\* transport's answer r (NoErr for a 200 response whose body parses).
authenticateError(r) ==
  IF r.kind = "error" THEN TransportErr
  ELSE IF ~r.readable THEN PlainErr("failed to read response")
  ELSE IF r.StatusCode # StatusOK
  THEN [kind |-> "APIError",
        ResponseCode |-> UnmarshalErrorResponse(r.body).ResponseCode,
        ResponseMessage |-> UnmarshalErrorResponse(r.body).ResponseMessage]
  ELSE IF ~UnmarshalAuthResponse(r.body).ok
  THEN PlainErr("failed to unmarshal token response")
  ELSE NoErr

\* A variant of authenticateStore that stores what it parsed before looking
\* at the outcome of the exchange.
authenticateStore_BeforeCheck(r) ==
  IF r.kind = "response"
  THEN <<UnmarshalAuthResponse(r.body).AccessToken,
         now + UnmarshalAuthResponse(r.body).ExpiresIn>>
  ELSE <<accessToken, tokenExpiry>>

\* Client.authenticate: the {token, expiry} pair the client holds after the
\* transport's answer r. Only a successful exchange replaces the pair.
authenticateStore(r) ==
  IF authenticateError(r) = NoErr
  THEN <<UnmarshalAuthResponse(r.body).AccessToken,
         now + UnmarshalAuthResponse(r.body).ExpiresIn>>
  ELSE <<accessToken, tokenExpiry>>

\* Client.authenticate, up to the token request being handed to the transport.
AuthenticateSend(p) ==
  /\ pc[p] = "auth"
  /\ IF buildAssertion(privateKey) # NoErr
     THEN AfterAuth(p, buildAssertion(privateKey)) /\ UNCHANGED <<calls, resp>>
     ELSE /\ calls' = [calls EXCEPT ![p] = Append(@, "token")]
          /\ resp' = [resp EXCEPT ![p] = NoResp]
          /\ pc' = [pc EXCEPT ![p] = "authWait"]
          /\ UNCHANGED <<authErr, ret>>
  /\ UNCHANGED <<client, now, op, arg, req>>

\* Client.authenticate, from the transport's answer on.
AuthenticateReceive(p) ==
  /\ pc[p] = "authWait"
  /\ \E r \in {TransportFailure} \cup Responses(TokenBodies) :
       /\ resp' = [resp EXCEPT ![p] = r]
       /\ accessToken' = authenticateStore(r)[1]
       /\ tokenExpiry' = authenticateStore(r)[2]
       /\ AfterAuth(p, authenticateError(r))
  /\ UNCHANGED <<auth, privateKey, debug, partnerID, clientSecret, channelID,
                 baseURL, clientID, isSandbox, httpClient, now, op, arg, calls, req>>

\* Client.makeRequest, first half: the body is serialized and
\* calculateSignature signs method, path, body, the stored token and a
\* timestamp of its own.
MakeRequestSign(p) ==
  /\ pc[p] = "sign"
  /\ \E body \in RequestBodies :
       req' = [req EXCEPT ![p] =
         [built |-> TRUE, method |-> VAMethod(op[p]), path |-> VAPath(op[p]),
          body |-> body,
          signedToken |-> accessToken, signedTimestamp |-> generateTimestamp(now),
          signature |-> calculateSignature(VAMethod(op[p]), VAPath(op[p]), body,
                                           accessToken, clientSecret,
                                           generateTimestamp(now))]]
  /\ pc' = [pc EXCEPT ![p] = "send"]
  /\ UNCHANGED <<client, now, op, arg, calls, resp, authErr, ret>>

\* http.Header.Get: the value of header k, "" when the header is absent.
Get(h, k) == IF k \in DOMAIN h THEN h[k] ELSE ""

\* A variant of SetHeaders that takes the channel id for the partner id.
SetHeaders_PartnerFromChannel(signature, externalID) ==
  LET h == "Content-Type" :> "application/json" @@
           "X-PARTNER-ID" :> channelID @@
           "X-EXTERNAL-ID" :> externalID @@
           "CHANNEL-ID" :> channelID @@
           "X-SIGNATURE" :> signature @@
           "X-TIMESTAMP" :> generateTimestamp(now)
  IN IF accessToken # "" THEN h @@ "Authorization" :> ("Bearer " \o accessToken) ELSE h

\* Client.makeRequest, the headers of the request: a timestamp of their own,
\* and an Authorization header only when the client holds a token.
SetHeaders(signature, externalID) ==
  LET h == "Content-Type" :> "application/json" @@
           "X-PARTNER-ID" :> partnerID @@
           "X-EXTERNAL-ID" :> externalID @@
           "CHANNEL-ID" :> channelID @@
           "X-SIGNATURE" :> signature @@
           "X-TIMESTAMP" :> generateTimestamp(now)
  IN IF accessToken # "" THEN h @@ "Authorization" :> ("Bearer " \o accessToken) ELSE h

\* Client.makeRequest, second half: the headers are set, the request is logged
\* in debug mode and handed to the transport.
MakeRequestSend(p) ==
  /\ pc[p] = "send"
  /\ \E n \in ExternalIDValues :
       req' = [req EXCEPT ![p] =
         [headers |-> SetHeaders(req[p].signature, generateExternalID(n)),
          sent |-> SentBody(IF debug THEN DumpRequestOut(Stream(req[p].body))
                                     ELSE Stream(req[p].body))] @@ req[p]]
  /\ calls' = [calls EXCEPT ![p] = Append(@, "operation")]
  /\ resp' = [resp EXCEPT ![p] = NoResp]
  /\ pc' = [pc EXCEPT ![p] = "wait"]
  /\ UNCHANGED <<client, now, op, arg, authErr, ret>>

\* A variant of StructuredBRIAPIResponse that takes the HTTP status from the
\* first three digits of the response code, as NewStructuredBRIAPIResponse does.
StructuredBRIAPIResponse_StatusFromCode(r) ==
  [kind |-> "StructuredBRIAPIResponse",
   ResponseCode |-> UnmarshalErrorResponse(r.body).ResponseCode,
   ResponseMessage |-> UnmarshalErrorResponse(r.body).ResponseMessage,
   ResponseDefinition |-> GetBRIVAResponseDefinition(UnmarshalErrorResponse(r.body).ResponseCode),
   HTTPStatusCode |->
     GetBRIVAResponseDefinition(UnmarshalErrorResponse(r.body).ResponseCode).ResponseCode.HTTPStatus,
   Timestamp |-> now]

\* The error a VA operation returns for a response whose status is not 200.
StructuredBRIAPIResponse(r) ==
  [kind |-> "StructuredBRIAPIResponse",
   ResponseCode |-> UnmarshalErrorResponse(r.body).ResponseCode,
   ResponseMessage |-> UnmarshalErrorResponse(r.body).ResponseMessage,
   ResponseDefinition |-> GetBRIVAResponseDefinition(UnmarshalErrorResponse(r.body).ResponseCode),
   HTTPStatusCode |-> r.StatusCode,
   Timestamp |-> now]

\* A variant of VAResult that reports a failure of the transport as a
\* structured API error with the zero status.
VAResult_TransportAsStructured(o, r) ==
  IF r.kind = "error"
  THEN [resp |-> NilResp,
        err |-> [kind |-> "StructuredBRIAPIResponse",
                 ResponseCode |-> <<>>, ResponseMessage |-> "",
                 ResponseDefinition |-> GetBRIVAResponseDefinition(<<>>),
                 HTTPStatusCode |-> 0, Timestamp |-> now]]
  ELSE IF ~r.readable
  THEN [resp |-> NilResp, err |-> Wrap("failed to read response", PlainErr("read error"))]
  ELSE IF r.StatusCode # StatusOK
  THEN [resp |-> NilResp, err |-> StructuredBRIAPIResponse(r)]
  ELSE IF ~r.body.valid
  THEN [resp |-> NilResp, err |-> Wrap("failed to unmarshal response", PlainErr("invalid JSON"))]
  ELSE [resp |-> [kind |-> "response", op |-> o,
                  ResponseCode |-> r.body.responseCode,
                  ResponseMessage |-> r.body.responseMessage],
        err |-> NoErr]

\* A variant of VAResult that drops the error of json.Unmarshal and returns
\* the zero response it was decoding into.
VAResult_DecodeErrorDropped(o, r) ==
  IF r.kind = "error"
  THEN [resp |-> NilResp, err |-> Wrap("failed to make request", TransportErr)]
  ELSE IF ~r.readable
  THEN [resp |-> NilResp, err |-> Wrap("failed to read response", PlainErr("read error"))]
  ELSE IF r.StatusCode # StatusOK
  THEN [resp |-> NilResp, err |-> StructuredBRIAPIResponse(r)]
  ELSE [resp |-> [kind |-> "response", op |-> o,
                  ResponseCode |-> r.body.responseCode,
                  ResponseMessage |-> r.body.responseMessage],
        err |-> NoErr]

\* A variant of VAResult that takes every 2xx status for success.
VAResult_Any2xx(o, r) ==
  IF r.kind = "error"
  THEN [resp |-> NilResp, err |-> Wrap("failed to make request", TransportErr)]
  ELSE IF ~r.readable
  THEN [resp |-> NilResp, err |-> Wrap("failed to read response", PlainErr("read error"))]
  ELSE IF r.StatusCode < 200 \/ r.StatusCode > 299
  THEN [resp |-> NilResp, err |-> StructuredBRIAPIResponse(r)]
  ELSE IF ~r.body.valid
  THEN [resp |-> NilResp, err |-> Wrap("failed to unmarshal response", PlainErr("invalid JSON"))]
  ELSE [resp |-> [kind |-> "response", op |-> o,
                  ResponseCode |-> r.body.responseCode,
                  ResponseMessage |-> r.body.responseMessage],
        err |-> NoErr]

\* A variant of VAResult that fails with a decoding error when the body of a
\* response that is not 200 does not parse.
VAResult_StrictErrorBody(o, r) ==
  IF r.kind = "error"
  THEN [resp |-> NilResp, err |-> Wrap("failed to make request", TransportErr)]
  ELSE IF ~r.readable
  THEN [resp |-> NilResp, err |-> Wrap("failed to read response", PlainErr("read error"))]
  ELSE IF ~r.body.valid
  THEN [resp |-> NilResp, err |-> Wrap("failed to unmarshal response", PlainErr("invalid JSON"))]
  ELSE IF r.StatusCode # StatusOK
  THEN [resp |-> NilResp, err |-> StructuredBRIAPIResponse(r)]
  ELSE [resp |-> [kind |-> "response", op |-> o,
                  ResponseCode |-> r.body.responseCode,
                  ResponseMessage |-> r.body.responseMessage],
        err |-> NoErr]

\* What a VA operation returns for the outcome r of its own exchange.
VAResult(o, r) ==
  IF r.kind = "error"
  THEN [resp |-> NilResp, err |-> Wrap("failed to make request", TransportErr)]
  ELSE IF ~r.readable
  THEN [resp |-> NilResp, err |-> Wrap("failed to read response", PlainErr("read error"))]
  ELSE IF r.StatusCode # StatusOK
  THEN [resp |-> NilResp, err |-> StructuredBRIAPIResponse(r)]
  ELSE IF ~r.body.valid
  THEN [resp |-> NilResp, err |-> Wrap("failed to unmarshal response", PlainErr("invalid JSON"))]
  ELSE [resp |-> [kind |-> "response", op |-> o,
                  ResponseCode |-> r.body.responseCode,
                  ResponseMessage |-> r.body.responseMessage],
        err |-> NoErr]

\* Client.makeRequest, after Do: a transport failure is returned at once; a
\* response is logged in debug mode and returned.
makeRequestReturn(r) ==
  IF r.kind = "response" /\ debug THEN DumpResponse(r) ELSE r

\* A variant of VAReceive that sends the request again when the transport
\* failed.
VAReceive_RetryOnTransportFailure(p) ==
  /\ pc[p] = "wait"
  /\ \E r \in {TransportFailure} \cup Responses(VABodies) :
       /\ resp' = [resp EXCEPT ![p] = r]
       /\ IF r = TransportFailure
          THEN pc' = [pc EXCEPT ![p] = "send"] /\ UNCHANGED <<ret, req>>
          ELSE /\ Finish(p, VAResult(op[p], ReadAll(makeRequestReturn(r))))
               /\ req' = [req EXCEPT ![p] = NoReq]
  /\ UNCHANGED <<client, now, op, arg, calls, authErr>>

\* A variant of VAReceive that forgets the token when the bank answers 401.
VAReceive_ForgetsTokenOn401(p) ==
  /\ pc[p] = "wait"
  /\ \E r \in {TransportFailure} \cup Responses(VABodies) :
       /\ resp' = [resp EXCEPT ![p] = r]
       /\ Finish(p, VAResult(op[p], ReadAll(makeRequestReturn(r))))
       /\ accessToken' = IF r.kind = "response" /\ r.StatusCode = 401 THEN "" ELSE accessToken
  /\ req' = [req EXCEPT ![p] = NoReq]
  /\ UNCHANGED <<tokenExpiry, auth, privateKey, debug, partnerID, clientSecret, channelID,
                 baseURL, clientID, isSandbox, httpClient, now, op, arg, calls, authErr>>

\* A VA operation, from the transport's answer on; the request makeRequest
\* built is gone when makeRequest returns.
VAReceive(p) ==
  /\ pc[p] = "wait"
  /\ \E r \in {TransportFailure} \cup Responses(VABodies) :
       /\ resp' = [resp EXCEPT ![p] = r]
       /\ Finish(p, VAResult(op[p], ReadAll(makeRequestReturn(r))))
  /\ req' = [req EXCEPT ![p] = NoReq]
  /\ UNCHANGED <<client, now, op, arg, calls, authErr>>

\* The caller takes the result; its next call starts afresh.
Return(p) ==
  /\ pc[p] = "done"
  /\ pc' = [pc EXCEPT ![p] = "idle"]
  /\ op' = [op EXCEPT ![p] = "none"]
  /\ arg' = [arg EXCEPT ![p] = NoArg]
  /\ calls' = [calls EXCEPT ![p] = <<>>]
  /\ req' = [req EXCEPT ![p] = NoReq]
  /\ resp' = [resp EXCEPT ![p] = NoResp]
  /\ authErr' = [authErr EXCEPT ![p] = NoErr]
  /\ ret' = [ret EXCEPT ![p] = NoRet]
  /\ UNCHANGED <<client, now>>

Step(p) ==
  \/ CallIsAuthenticated(p)
  \/ CallAuthenticate(p)
  \/ CallEnsureAuthenticated(p)
  \/ CallVA(p)
  \/ CallGetBRIVAResponseDefinition(p)
  \/ CallCalculateSignature(p)
  \/ CallGetCategory(p)
  \/ CallGenerateExternalID(p)
  \/ EnsureAuthenticated(p)
  \/ CustomEnsureAuthenticated(p)
  \/ AuthenticateSend(p)
  \/ AuthenticateReceive(p)
  \/ MakeRequestSign(p)
  \/ MakeRequestSend(p)
  \/ VAReceive(p)
  \/ Return(p)

\* One caller at a time uses the client.
Next == Tick \/ Step("c1")

Spec == Init /\ [][Next]_vars

\* ------------------------------------------------------ concurrent callers

\* The callers share one client. Nothing in Client orders their accesses to
\* accessToken and tokenExpiry: the two fields are written one after the
\* other, in an order the other callers may see either way, and are read
\* without synchronization. Each caller makes one call; the client has the
\* default authenticator, a usable key and no debug logging.

\* Answers of the token endpoint: two successes and a failure.
ConcurrentTokenResponses ==
  { [kind |-> "response", StatusCode |-> StatusOK, readable |-> TRUE, drained |-> FALSE,
     body |-> Body(<<>>, "", "tokA", MaxExpiresIn)],
    [kind |-> "response", StatusCode |-> StatusOK, readable |-> TRUE, drained |-> FALSE,
     body |-> Body(<<>>, "", "tokB", MaxExpiresIn - 1)],
    [kind |-> "response", StatusCode |-> 401, readable |-> TRUE, drained |-> FALSE,
     body |-> Body(<<"4","0","1","2","7","0","5">>, "Invalid credentials", "", 0)] }

\* Outcomes of the operation's exchange: a failure of the transport, a
\* success and an error answer.
ConcurrentVAResponses ==
  { TransportFailure,
    [kind |-> "response", StatusCode |-> StatusOK, readable |-> TRUE, drained |-> FALSE,
     body |-> Body(<<"2","0","0","2","7","0","0">>, "", "", 0)],
    [kind |-> "response", StatusCode |-> 401, readable |-> TRUE, drained |-> FALSE,
     body |-> Body(<<"4","0","1","2","7","0","3">>, "", "", 0)] }

InitConcurrent ==
  /\ Init
  /\ auth = "default"
  /\ privateKey = "rsa"
  /\ debug = FALSE
  /\ partnerID = "partnerA"

\* A caller calls CreateVirtualAccount.
CallCreateVirtualAccount(p) ==
  /\ pc[p] = "idle"
  /\ op' = [op EXCEPT ![p] = "CreateVirtualAccount"]
  /\ pc' = [pc EXCEPT ![p] = "ensure"]
  /\ UNCHANGED <<client, now, arg, calls, req, resp, authErr, ret>>

\* Client.authenticate, from the transport's answer to its first write: a
\* failed exchange writes nothing; a successful one writes the token or the
\* expiry, the other field still to come.
AuthenticateReceiveFirstWrite(p) ==
  /\ pc[p] = "authWait"
  /\ \E r \in ConcurrentTokenResponses :
       /\ resp' = [resp EXCEPT ![p] = r]
       /\ IF authenticateError(r) # NoErr
          THEN /\ AfterAuth(p, authenticateError(r))
               /\ UNCHANGED <<accessToken, tokenExpiry>>
          ELSE /\ \/ /\ accessToken' = authenticateStore(r)[1]
                     /\ UNCHANGED tokenExpiry
                     /\ pc' = [pc EXCEPT ![p] = "storeExpiry"]
                  \/ /\ tokenExpiry' = authenticateStore(r)[2]
                     /\ UNCHANGED accessToken
                     /\ pc' = [pc EXCEPT ![p] = "storeToken"]
               /\ UNCHANGED <<authErr, ret>>
  /\ UNCHANGED <<auth, privateKey, debug, partnerID, clientSecret, channelID,
                 baseURL, clientID, isSandbox, httpClient, now, op, arg, calls, req>>

\* Client.authenticate, its second write, and its return.
AuthenticateSecondWrite(p) ==
  /\ pc[p] \in {"storeExpiry", "storeToken"}
  /\ IF pc[p] = "storeExpiry"
     THEN /\ tokenExpiry' = now + UnmarshalAuthResponse(resp[p].body).ExpiresIn
          /\ UNCHANGED accessToken
     ELSE /\ accessToken' = UnmarshalAuthResponse(resp[p].body).AccessToken
          /\ UNCHANGED tokenExpiry
  /\ AfterAuth(p, NoErr)
  /\ UNCHANGED <<auth, privateKey, debug, partnerID, clientSecret, channelID,
                 baseURL, clientID, isSandbox, httpClient, now, op, arg, calls, req, resp>>

\* A VA operation, from the transport's answer on.
VAReceiveConcurrent(p) ==
  /\ pc[p] = "wait"
  /\ \E r \in ConcurrentVAResponses :
       /\ resp' = [resp EXCEPT ![p] = r]
       /\ Finish(p, VAResult(op[p], ReadAll(makeRequestReturn(r))))
  /\ req' = [req EXCEPT ![p] = NoReq]
  /\ UNCHANGED <<client, now, op, arg, calls, authErr>>

StepConcurrent(p) ==
  \/ CallEnsureAuthenticated(p)
  \/ CallCreateVirtualAccount(p)
  \/ EnsureAuthenticated(p)
  \/ AuthenticateSend(p)
  \/ AuthenticateReceiveFirstWrite(p)
  \/ AuthenticateSecondWrite(p)
  \/ MakeRequestSign(p)
  \/ MakeRequestSend(p)
  \/ VAReceiveConcurrent(p)

NextConcurrent == Tick \/ \E p \in Callers : StepConcurrent(p)

SpecConcurrent == InitConcurrent /\ [][NextConcurrent]_vars


\* ----------------------------------------------------------------- claims

\* The validity of a {token, expiry} pair at time n.
TokenValid(t, e, n) == t # "" /\ n < e

\* The call of caller p has handed its own request to the transport.
OperationSent(p) == \E i \in 1 .. Len(calls[p]) : calls[p][i] = "operation"

\* r is a response with status 200 that was read and parses.
IsOK(r) == r.kind = "response" /\ r.readable /\ r.StatusCode = 200 /\ r.body.valid

\* C1: IsAuthenticated() returns true if and only if the stored token is
\* non-empty and the current time is strictly before the stored expiry (so it
\* is false for an empty token whatever the expiry, and false at or after the
\* expiry whatever the token), and the call changes no state.
C1_IsAuthenticatedIffValid ==
  [][\A p \in Callers :
       (pc[p] = "idle" /\ pc'[p] = "done" /\ op'[p] = "IsAuthenticated")
       => /\ ret'[p].resp.value = (accessToken # "" /\ now < tokenExpiry)
          /\ (accessToken = "" => ~ret'[p].resp.value)
          /\ (now >= tokenExpiry => ~ret'[p].resp.value)
          /\ UNCHANGED <<client, now, calls, req, resp, authErr>>]_vars

\* C1 happens: IsAuthenticated returned false for a non-empty token at the very
\* instant of its expiry.
C1_Witness ==
  \E p \in Callers :
    /\ pc[p] = "done" /\ op[p] = "IsAuthenticated"
    /\ ret[p].resp.value = FALSE
    /\ accessToken # "" /\ now = tokenExpiry

\* C2 (as claimed): the client becomes authenticated only by a successful token
\* exchange, and an authenticated client becomes unauthenticated only by the
\* clock passing the stored expiry, never by a call.
C2_TransitionsOnlyByExchangeOrClock ==
  [][/\ (~TokenValid(accessToken, tokenExpiry, now)
           /\ TokenValid(accessToken', tokenExpiry', now'))
        => \E p \in Callers :
             pc[p] = "authWait" /\ authErr'[p] = NoErr /\ IsOK(resp'[p])
     /\ (TokenValid(accessToken, tokenExpiry, now)
           /\ ~TokenValid(accessToken', tokenExpiry', now'))
        => (now' > now /\ UNCHANGED <<accessToken, tokenExpiry>>)]_vars

\* C3: when authenticate receives a 200 token response {accessToken, expiresIn}
\* it returns no error, and afterwards the stored token is accessToken and the
\* stored expiry is the time of the exchange plus expiresIn seconds.
C3_SuccessStoresPair ==
  [][\A p \in Callers :
       (pc[p] = "authWait" /\ pc'[p] # "authWait" /\ IsOK(resp'[p]))
       => /\ authErr'[p] = NoErr
          /\ (op[p] \notin VAOps => ret'[p].err = NoErr)
          /\ accessToken' = resp'[p].body.accessToken
          /\ tokenExpiry' = now + resp'[p].body.expiresIn]_vars

\* C3 happens: Authenticate has just stored tokB with a lifetime of 2.
C3_Witness ==
  \E p \in Callers :
    /\ pc[p] = "done" /\ op[p] = "Authenticate" /\ IsOK(resp[p])
    /\ resp[p].body.accessToken = "tokB" /\ resp[p].body.expiresIn = 2
    /\ accessToken = "tokB" /\ tokenExpiry = now + 2

\* C4: a failed authenticate (key error, signing error, transport failure,
\* non-200 response) leaves the stored token and expiry as they were; the pair
\* changes only in a successful exchange.
C4_FailureKeepsPair ==
  [][/\ \A p \in Callers :
          (pc[p] \in {"auth", "authWait"} /\ pc'[p] # pc[p] /\ authErr'[p] # NoErr)
          => UNCHANGED <<accessToken, tokenExpiry>>
     /\ (<<accessToken', tokenExpiry'>> # <<accessToken, tokenExpiry>>)
        => \E p \in Callers :
             pc[p] = "authWait" /\ authErr'[p] = NoErr /\ IsOK(resp'[p])]_vars

\* C4 happens: Authenticate failed on a 401 token response and the client still
\* holds the valid token it had.
C4_Witness ==
  \E p \in Callers :
    /\ pc[p] = "done" /\ op[p] = "Authenticate"
    /\ ret[p].err.kind = "APIError" /\ resp[p].StatusCode = 401
    /\ accessToken = "tokA" /\ now < tokenExpiry

\* C5: EnsureAuthenticated on an authenticated client returns no error, sends
\* nothing and leaves token and expiry unchanged; it goes on to authenticate
\* only when IsAuthenticated() is false at the check.
C5_EnsureAuthenticatedNoOp ==
  [][\A p \in Callers :
       (pc[p] = "ensure" /\ pc'[p] # "ensure" /\ auth = "default")
       => IF accessToken # "" /\ now < tokenExpiry
          THEN /\ UNCHANGED <<accessToken, tokenExpiry, calls>>
               /\ calls[p] = <<>>
               /\ authErr'[p] = NoErr
               /\ pc'[p] \in {"done", "sign"}
               /\ (op[p] = "EnsureAuthenticated"
                     => pc'[p] = "done" /\ ret'[p].err = NoErr)
          ELSE pc'[p] = "auth"]_vars

\* C5 happens: EnsureAuthenticated returned nil on a client holding a token,
\* without any HTTP exchange.
C5_Witness ==
  \E p \in Callers :
    /\ pc[p] = "done" /\ op[p] = "EnsureAuthenticated"
    /\ calls[p] = <<>> /\ ret[p].err = NoErr
    /\ accessToken # "" /\ now < tokenExpiry

\* C6: when EnsureAuthenticated returns an error, the VA operation returns a
\* nil response and an error wrapping that error, and its own request is never
\* handed to the transport.
C6_AuthFailureStopsOperation ==
  \A p \in Callers :
    /\ (pc[p] = "done" /\ op[p] \in VAOps /\ authErr[p] # NoErr)
       => /\ ret[p].resp = NilResp
          /\ ret[p].err.kind = "wrap"
          /\ ret[p].err.msg = "authentication failed"
          /\ ret[p].err.inner = authErr[p]
          /\ ~OperationSent(p)
    /\ (pc[p] \in {"sign", "send", "wait"} => authErr[p] = NoErr)

\* C6 happens: a VA operation ended on the default authenticator's failed token
\* exchange.
C6_Witness ==
  \E p \in Callers :
    /\ pc[p] = "done" /\ op[p] \in VAOps /\ authErr[p] # NoErr
    /\ auth = "default" /\ calls[p] = <<"token">>

\* C7 (as claimed): with the default authenticator, when a VA operation's
\* request is handed to the transport the client holds a token that is
\* non-empty and not yet expired.
C7_ValidTokenAtSend ==
  [][\A p \in Callers :
       (auth = "default" /\ pc[p] = "send" /\ pc'[p] = "wait")
       => (accessToken # "" /\ now < tokenExpiry)]_vars

\* C8: for every VA operation, a completed exchange whose status is not 200
\* yields a nil response and a StructuredBRIAPIResponse carrying the body's
\* responseCode and responseMessage and the status of the response; for code
\* 4002701 delivered with status 400 its category is BadRequest.
C8_Non200IsStructured ==
  \A p \in Callers :
    (/\ pc[p] = "done" /\ op[p] \in VAOps /\ OperationSent(p)
     /\ resp[p].kind = "response" /\ resp[p].readable
     /\ resp[p].StatusCode # 200)
    => /\ ret[p].resp = NilResp
       /\ ret[p].err.kind = "StructuredBRIAPIResponse"
       /\ ret[p].err.HTTPStatusCode = resp[p].StatusCode
       /\ (resp[p].body.valid
             => /\ ret[p].err.ResponseCode = resp[p].body.responseCode
                /\ ret[p].err.ResponseMessage = resp[p].body.responseMessage)
       /\ ((resp[p].body.responseCode = <<"4","0","0","2","7","0","1">>
              /\ resp[p].StatusCode = 400)
             => GetCategory(ret[p].err) = "BadRequest")

\* C8 happens: CreateVirtualAccount returned the structured error of a 400
\* response with code 4002701.
C8_Witness ==
  \E p \in Callers :
    /\ pc[p] = "done" /\ op[p] = "CreateVirtualAccount"
    /\ ret[p].err.kind = "StructuredBRIAPIResponse"
    /\ ret[p].err.ResponseCode = <<"4","0","0","2","7","0","1">>
    /\ ret[p].err.ResponseMessage = "Invalid Field Format"
    /\ ret[p].err.HTTPStatusCode = 400

\* C9 (as claimed): the structured error of a response whose code is absent
\* from the catalog, 9999999 delivered with status 400, has category Pending
\* and IsPending() true.
C9_UnknownCodeIsPending ==
  \A p \in Callers :
    (/\ pc[p] = "done" /\ op[p] \in VAOps
     /\ ret[p].err.kind = "StructuredBRIAPIResponse"
     /\ ret[p].err.ResponseCode = <<"9","9","9","9","9","9","9">>
     /\ ret[p].err.ResponseCode \notin DOMAIN brivaResponseDefinitions
     /\ ret[p].err.HTTPStatusCode = 400)
    => (GetCategory(ret[p].err) = "Pending" /\ IsPending(ret[p].err))

\* C10 (as claimed): for a non-200 response whose code is in the catalog, here
\* delivered with the very HTTP status the catalog stores for the code, the
\* category GetCategory() reports is the category the catalog stores.
C10_CategoryIsCatalogCategory ==
  \A p \in Callers :
    (/\ pc[p] = "done" /\ op[p] \in VAOps
     /\ ret[p].err.kind = "StructuredBRIAPIResponse"
     /\ ret[p].err.ResponseCode \in DOMAIN brivaResponseDefinitions
     /\ ret[p].err.HTTPStatusCode =
          brivaResponseDefinitions[ret[p].err.ResponseCode].ResponseCode.HTTPStatus)
    => GetCategory(ret[p].err) = brivaResponseDefinitions[ret[p].err.ResponseCode].Category

\* errors.As(err, &target) for a target of the given kind: err is of the kind,
\* or wraps (with %w) an error that is.
RECURSIVE ErrorsAs(_, _)
ErrorsAs(e, k) ==
  IF e.kind = k THEN TRUE
  ELSE IF e.kind = "wrap" THEN ErrorsAs(e.inner, k)
  ELSE FALSE

\* C11: when the transport fails (Do returns an error) at the token exchange
\* or at the operation's own request, the call returns no response value and
\* an error that is not, and does not wrap, a StructuredBRIAPIResponse.
C11_TransportFailureIsNotStructured ==
  \A p \in Callers :
    (pc[p] = "done" /\ resp[p] = TransportFailure)
    => /\ ret[p].resp = NilResp
       /\ ret[p].err # NoErr
       /\ ~ErrorsAs(ret[p].err, "StructuredBRIAPIResponse")
       /\ ErrorsAs(ret[p].err, "plain")

\* A VA operation whose own request failed in the transport has returned.
C11_Witness ==
  \E p \in Callers :
    /\ pc[p] = "done" /\ op[p] \in VAOps
    /\ OperationSent(p)
    /\ resp[p] = TransportFailure
    /\ ret[p].err = Wrap("failed to make request", TransportErr)

\* C12: a VA operation whose response has status 200 and a body that does not
\* decode returns a nil response and a decoding error that is not, and does
\* not wrap, a StructuredBRIAPIResponse.
C12_UndecodableBodyIsDecodeError ==
  \A p \in Callers :
    (/\ pc[p] = "done" /\ op[p] \in VAOps
     /\ OperationSent(p)
     /\ resp[p].kind = "response" /\ resp[p].readable
     /\ resp[p].StatusCode = 200
     /\ ~resp[p].body.valid)
    => /\ ret[p].resp = NilResp
       /\ ret[p].err.kind = "wrap"
       /\ ret[p].err.msg = "failed to unmarshal response"
       /\ ~ErrorsAs(ret[p].err, "StructuredBRIAPIResponse")

\* A VA operation has returned for a 200 response that is not JSON.
C12_Witness ==
  \E p \in Callers :
    /\ pc[p] = "done" /\ op[p] = "CreateVirtualAccount"
    /\ OperationSent(p)
    /\ resp[p].kind = "response" /\ resp[p].readable
    /\ resp[p].StatusCode = 200
    /\ resp[p].body = InvalidBody
    /\ ret[p].err.kind = "wrap"

\* C13: a VA operation returns a response with a nil error exactly when
\* authentication succeeded, the status is exactly 200 and the body decoded,
\* and the response then carries the fields of the body; in every other case
\* (another 2xx status included) it returns a nil response and a non-nil
\* error. It never returns both, and never neither.
C13_ResponseXorError ==
  \A p \in Callers :
    (pc[p] = "done" /\ op[p] \in VAOps)
    => /\ (ret[p].err = NoErr)
            <=> (authErr[p] = NoErr /\ OperationSent(p) /\ IsOK(resp[p]))
       /\ (ret[p].resp # NilResp) <=> (ret[p].err = NoErr)
       /\ (ret[p].err = NoErr)
            => /\ ret[p].resp.ResponseCode = resp[p].body.responseCode
               /\ ret[p].resp.ResponseMessage = resp[p].body.responseMessage

\* A VA operation has returned the fields of a 200 body.
C13_Witness ==
  \E p \in Callers :
    /\ pc[p] = "done" /\ op[p] \in VAOps
    /\ IsOK(resp[p])
    /\ ret[p].err = NoErr
    /\ ret[p].resp.ResponseCode = <<"2","0","0","2","7","0","0">>
    /\ ret[p].resp.ResponseMessage = "Invalid Field Format"

\* The error errors.As(err, &target) stores in a target of the given kind
\* (NoErr when it finds none).
RECURSIVE ErrorsAsTarget(_, _)
ErrorsAsTarget(e, k) ==
  IF e.kind = k THEN e
  ELSE IF e.kind = "wrap" THEN ErrorsAsTarget(e.inner, k)
  ELSE NoErr

\* C14: when the token exchange is answered with a non-success HTTP status,
\* authenticate returns an APIError carrying exactly the responseCode and
\* responseMessage of the body; the error the call returns yields it to
\* errors.As; and the {token, expiry} pair is as it was before the exchange,
\* so the exchange has not authenticated the client.
C14_TokenFailureIsAPIError ==
  [][\A p \in Callers :
       (/\ pc[p] = "authWait" /\ pc'[p] # "authWait"
        /\ resp'[p].kind = "response" /\ resp'[p].readable
        /\ resp'[p].StatusCode \notin 200 .. 299
        /\ resp'[p].body.valid)
       => /\ authErr'[p] = [kind |-> "APIError",
                            ResponseCode |-> resp'[p].body.responseCode,
                            ResponseMessage |-> resp'[p].body.responseMessage]
          /\ ErrorsAsTarget(ret'[p].err, "APIError") = authErr'[p]
          /\ ret'[p].resp = NilResp
          /\ accessToken' = accessToken /\ tokenExpiry' = tokenExpiry]_vars

\* A VA operation has returned after its token exchange was answered 401 with
\* code 4012705, and the client holds no token.
C14_Witness ==
  \E p \in Callers :
    /\ pc[p] = "done" /\ op[p] \in VAOps
    /\ calls[p] = <<"token">>
    /\ resp[p].kind = "response" /\ resp[p].StatusCode = 401
    /\ ErrorsAs(ret[p].err, "APIError")
    /\ ErrorsAsTarget(ret[p].err, "APIError").ResponseCode = <<"4","0","1","2","7","0","5">>
    /\ ErrorsAsTarget(ret[p].err, "APIError").ResponseMessage = "Invalid credentials"
    /\ accessToken = ""

\* The HTTP status a seven-digit code names: its first three digits.
StatusOfCode(code) ==
  100 * DigitValue(code[1]) + 10 * DigitValue(code[2]) + DigitValue(code[3])

\* The description of a definition made up for a code the catalog lacks.
SynthesizedDescription(code) ==
  <<"Unknown response code: ", code, " - Status pending, requires manual verification">>

\* C15: for every key of the catalog, GetBRIVAResponseDefinition returns the
\* stored definition (HTTP status, service code, case code, full code,
\* category, description and field), whose full code is the key, and never a
\* synthesized one.
C15_CatalogCodeReturnsStored ==
  \A p \in Callers :
    (/\ pc[p] = "done" /\ op[p] = "GetBRIVAResponseDefinition"
     /\ arg[p].code \in DOMAIN brivaResponseDefinitions)
    => /\ ret[p].resp = brivaResponseDefinitions[arg[p].code]
       /\ ret[p].resp.ResponseCode.FullCode = arg[p].code
       /\ ret[p].resp.Description # SynthesizedDescription(arg[p].code)
       /\ ret[p].err = NoErr

\* The lookup of 4042612, a key of the catalog, has returned its definition.
C15_Witness ==
  \E p \in Callers :
    /\ pc[p] = "done" /\ op[p] = "GetBRIVAResponseDefinition"
    /\ arg[p].code = <<"4","0","4","2","6","1","2">>
    /\ arg[p].code \in DOMAIN brivaResponseDefinitions
    /\ ret[p].resp.ResponseCode.HTTPStatus = 404
    /\ ret[p].resp.ResponseCode.ServiceCode = 26
    /\ ret[p].resp.ResponseCode.CaseCode = 12

\* C16: for every code of exactly seven digits that the catalog lacks, the
\* definition returned has the first three digits as HTTP status, category
\* Success for 200-299, BadRequest for 400-499, InternalServerError for
\* 500-599 and Pending otherwise (000-199, 300-399, 600-999), and the code
\* itself as full code.
C16_AbsentCodeIsSynthesized ==
  \A p \in Callers :
    (/\ pc[p] = "done" /\ op[p] = "GetBRIVAResponseDefinition"
     /\ Len(arg[p].code) = 7
     /\ \A i \in 1 .. 7 : arg[p].code[i] \in Digits
     /\ arg[p].code \notin DOMAIN brivaResponseDefinitions)
    => /\ ret[p].resp.ResponseCode.HTTPStatus = StatusOfCode(arg[p].code)
       /\ ret[p].resp.ResponseCode.FullCode = arg[p].code
       /\ ret[p].resp.Category =
            (CASE StatusOfCode(arg[p].code) \in 200 .. 299 -> "Success"
               [] StatusOfCode(arg[p].code) \in 400 .. 499 -> "BadRequest"
               [] StatusOfCode(arg[p].code) \in 500 .. 599 -> "InternalServerError"
               [] OTHER -> "Pending")

\* The lookup of 6009999, seven digits the catalog lacks, has returned a
\* Pending definition with status 600.
C16_Witness ==
  \E p \in Callers :
    /\ pc[p] = "done" /\ op[p] = "GetBRIVAResponseDefinition"
    /\ arg[p].code = <<"6","0","0","9","9","9","9">>
    /\ arg[p].code \notin DOMAIN brivaResponseDefinitions
    /\ ret[p].resp.ResponseCode.HTTPStatus = 600
    /\ ret[p].resp.Category = "Pending"

\* C17: for every code that is not exactly seven digits (empty, shorter,
\* longer, or with a character that is no digit), the lookup returns a
\* definition, never nil, with HTTP status 500 and the category of that
\* status, InternalServerError.
C17_MalformedCodeIs500 ==
  \A p \in Callers :
    (/\ pc[p] = "done" /\ op[p] = "GetBRIVAResponseDefinition"
     /\ ~(Len(arg[p].code) = 7 /\ \A i \in 1 .. 7 : arg[p].code[i] \in Digits))
    => /\ ret[p].resp # NilResp
       /\ ret[p].err = NoErr
       /\ ret[p].resp.ResponseCode.HTTPStatus = 500
       /\ ret[p].resp.Category = "InternalServerError"
       /\ ret[p].resp.ResponseCode.FullCode = arg[p].code

\* The lookup of the three-digit code 400 has returned a definition with
\* status 500.
C17_Witness ==
  \E p \in Callers :
    /\ pc[p] = "done" /\ op[p] = "GetBRIVAResponseDefinition"
    /\ arg[p].code = <<"4","0","0">>
    /\ ret[p].resp.ResponseCode.HTTPStatus = 500
    /\ ret[p].resp.Category = "InternalServerError"

\* Values the six inputs of a signature are varied over.
AltTokens == Tokens \cup {"v1:tokA"}

AltSecrets == {"secretA", "secretB", ""}

AltTimestamps == { generateTimestamp(n) : n \in 1 .. MaxTime }

\* C18 (as claimed): the signature is a function of (method, path, body, token,
\* secret, timestamp) only, and changing any single one of the six, the others
\* kept, changes the signature.
C18_AnySingleInputChangesSignature ==
  \A p \in Callers :
    (pc[p] = "done" /\ op[p] = "calculateSignature")
    => LET a == arg[p]
           sig == ret[p].resp
       IN /\ sig = calculateSignature(a.method, a.path, a.body, a.token, a.secret, a.timestamp)
          /\ \A m \in SignMethods \ {a.method} :
               calculateSignature(m, a.path, a.body, a.token, a.secret, a.timestamp) # sig
          /\ \A q \in SignPaths \ {a.path} :
               calculateSignature(a.method, q, a.body, a.token, a.secret, a.timestamp) # sig
          /\ \A b \in SignBodies \ {a.body} :
               calculateSignature(a.method, a.path, b, a.token, a.secret, a.timestamp) # sig
          /\ \A t \in AltTokens \ {a.token} :
               calculateSignature(a.method, a.path, a.body, t, a.secret, a.timestamp) # sig
          /\ \A k \in AltSecrets \ {a.secret} :
               calculateSignature(a.method, a.path, a.body, a.token, k, a.timestamp) # sig
          /\ \A ts \in AltTimestamps \ {a.timestamp} :
               calculateSignature(a.method, a.path, a.body, a.token, a.secret, ts) # sig

\* C18 (amended): the signature returned is the one the six inputs determine;
\* changing the method, the path, the token, the secret or the timestamp
\* alone changes it; changing the body alone changes it when the method is
\* not GET, and leaves it as it is when the method is GET.
C18_SingleInputChangesSignatureUnlessGETBody ==
  \A p \in Callers :
    (pc[p] = "done" /\ op[p] = "calculateSignature")
    => LET a == arg[p]
           sig == ret[p].resp
       IN /\ sig = calculateSignature(a.method, a.path, a.body, a.token, a.secret, a.timestamp)
          /\ \A m \in SignMethods \ {a.method} :
               calculateSignature(m, a.path, a.body, a.token, a.secret, a.timestamp) # sig
          /\ \A q \in SignPaths \ {a.path} :
               calculateSignature(a.method, q, a.body, a.token, a.secret, a.timestamp) # sig
          /\ \A b \in SignBodies \ {a.body} :
               (calculateSignature(a.method, a.path, b, a.token, a.secret, a.timestamp) # sig)
                 <=> (a.method # "GET")
          /\ \A t \in AltTokens \ {a.token} :
               calculateSignature(a.method, a.path, a.body, t, a.secret, a.timestamp) # sig
          /\ \A k \in AltSecrets \ {a.secret} :
               calculateSignature(a.method, a.path, a.body, a.token, k, a.timestamp) # sig
          /\ \A ts \in AltTimestamps \ {a.timestamp} :
               calculateSignature(a.method, a.path, a.body, a.token, a.secret, ts) # sig

\* A POST with a body has been signed under a token.
C18_Witness ==
  \E p \in Callers :
    /\ pc[p] = "done" /\ op[p] = "calculateSignature"
    /\ arg[p].method = "POST" /\ arg[p].body = "null"
    /\ arg[p].path = "/snap:v1"
    /\ arg[p].token = "tokA" /\ arg[p].secret = "secretB"
    /\ ret[p].resp # ""

\* C19: for the same path, token, secret and timestamp, the signature of a GET
\* request, or of a request of any method with an empty body, is the
\* signature of the same method with the empty string for body: the digest
\* signed is SHA-256 of "".
C19_GETOrEmptyBodySignsEmptyDigest ==
  \A p \in Callers :
    (/\ pc[p] = "done" /\ op[p] = "calculateSignature"
     /\ (arg[p].method = "GET" \/ arg[p].body = ""))
    => /\ ret[p].resp =
            calculateSignature(arg[p].method, arg[p].path, "", arg[p].token,
                               arg[p].secret, arg[p].timestamp)
       /\ ret[p].resp =
            HMACSHA512Base64(arg[p].secret,
              arg[p].method \o ":" \o arg[p].path \o ":" \o arg[p].token \o ":"
                \o SHA256Hex("") \o ":" \o arg[p].timestamp)

\* A GET with a non-empty body has been signed.
C19_Witness ==
  \E p \in Callers :
    /\ pc[p] = "done" /\ op[p] = "calculateSignature"
    /\ arg[p].method = "GET" /\ arg[p].body = "null"
    /\ ret[p].resp # ""

\* The headers every request carries whatever the token: Content-Type, the
\* configured partner and channel ids, and a non-empty external id, signature
\* and timestamp.
CommonHeaders(h) ==
  /\ Get(h, "Content-Type") = "application/json"
  /\ Get(h, "X-PARTNER-ID") = partnerID
  /\ Get(h, "X-EXTERNAL-ID") # ""
  /\ Get(h, "CHANNEL-ID") = channelID
  /\ Get(h, "X-SIGNATURE") # ""
  /\ Get(h, "X-TIMESTAMP") # ""

\* C20 (as claimed): every request makeRequest hands to the transport carries
\* Content-Type application/json, the configured partner id and channel id, a
\* non-empty external id, signature and timestamp, and an Authorization header
\* equal to "Bearer " followed by the current access token.
C20_EveryRequestCarriesAuthorization ==
  [][\A p \in Callers :
       (pc[p] = "send" /\ pc'[p] = "wait")
       => /\ CommonHeaders(req'[p].headers)
          /\ "Authorization" \in DOMAIN req'[p].headers
          /\ req'[p].headers["Authorization"] = "Bearer " \o accessToken]_vars

\* C20 (amended): every request handed to the transport carries the six
\* headers above; it carries Authorization, equal to "Bearer " followed by
\* the current access token, exactly when the client holds a non-empty token,
\* and no Authorization header when the token is empty.
C20_AuthorizationOnlyWithToken ==
  [][\A p \in Callers :
       (pc[p] = "send" /\ pc'[p] = "wait")
       => /\ CommonHeaders(req'[p].headers)
          /\ Get(req'[p].headers, "X-SIGNATURE") = req[p].signature
          /\ ("Authorization" \in DOMAIN req'[p].headers) <=> (accessToken # "")
          /\ accessToken # ""
               => req'[p].headers["Authorization"] = "Bearer " \o accessToken]_vars

\* A request is with the transport bearing all seven headers, with external
\* id 000000042 and the token tokA.
C20_Witness ==
  \E p \in Callers :
    /\ pc[p] = "wait" /\ op[p] \in VAOps
    /\ accessToken = "tokA"
    /\ req[p].headers["Authorization"] = "Bearer tokA"
    /\ req[p].headers["X-EXTERNAL-ID"] = "000000042"
    /\ req[p].headers["X-PARTNER-ID"] = "partnerB"
    /\ req[p].headers["CHANNEL-ID"] = "channelB"

\* C24: for every VA operation and every outcome of the transport, what the
\* operation returns in debug mode is what it returns for that outcome without
\* debug mode (the result of the outcome as the transport delivered it), and
\* the body the transport is handed is the body that was serialized: logging
\* consumes neither the response body nor the request body.
C24_DebugChangesNoResult ==
  [][\A p \in Callers :
       /\ (pc[p] = "wait" /\ pc'[p] = "done")
            => ret'[p] = VAResult(op[p], resp'[p])
       /\ (pc[p] = "send" /\ pc'[p] = "wait")
            => req'[p].sent = req[p].body]_vars

\* In debug mode a VA operation has returned the fields of a 200 body.
C24_Witness ==
  \E p \in Callers :
    /\ debug
    /\ pc[p] = "done" /\ op[p] \in VAOps
    /\ IsOK(resp[p])
    /\ ret[p].err = NoErr
    /\ ret[p].resp.ResponseCode = resp[p].body.responseCode

\* C21: a VA operation hands the transport at most two requests, a token
\* request and then the operation's own, each at most once; the token request
\* is made only when the check found the client unauthenticated, and a call
\* that found it authenticated makes exactly the operation's request; once an
\* exchange has failed the call returns without another request.
C21_AtMostTwoExchangesNoRetry ==
  [][\A p \in Callers :
       op'[p] \in VAOps
       => /\ calls'[p] \in {<<>>, <<"token">>, <<"operation">>, <<"token", "operation">>}
          /\ (auth = "default" /\ pc[p] = "ensure" /\ pc'[p] = "auth") => ~IsAuthenticated
          /\ (auth = "default" /\ pc[p] = "ensure" /\ pc'[p] # "ensure" /\ IsAuthenticated)
               => (pc'[p] = "sign" /\ calls'[p] = <<>>)
          /\ (pc'[p] = "done" /\ authErr'[p] = NoErr /\ calls'[p][1] # "token")
               => calls'[p] = <<"operation">>
          /\ (pc[p] = "authWait" /\ pc'[p] # "authWait" /\ authErr'[p] # NoErr)
               => (pc'[p] = "done" /\ calls'[p] = <<"token">>)
          /\ (pc[p] = "wait" /\ pc'[p] # "wait")
               => (pc'[p] = "done" /\ calls'[p] = calls[p])]_vars

\* A VA operation has returned after a token exchange and its own request,
\* which the transport failed.
C21_Witness ==
  \E p \in Callers :
    /\ pc[p] = "done" /\ op[p] \in VAOps
    /\ calls[p] = <<"token", "operation">>
    /\ resp[p] = TransportFailure

\* C25: no step changes the base URL, the partner id, the client id, the
\* client secret, the private key, the channel id, the sandbox flag, the debug
\* flag, the transport or the authenticator; and no step of a VA operation
\* that made no token exchange changes the token or its expiry.
C25_OnlyTokenPairChanges ==
  [][/\ UNCHANGED <<baseURL, partnerID, clientID, clientSecret, privateKey, channelID,
                    isSandbox, debug, httpClient, auth>>
     /\ \A p \in Callers :
          (op[p] \in VAOps /\ (calls'[p] = <<>> \/ calls'[p] = <<"operation">>))
          => UNCHANGED <<accessToken, tokenExpiry>>]_vars

\* A VA operation on an authenticated client has been answered 401 and has
\* returned; the client still holds its token.
C25_Witness ==
  \E p \in Callers :
    /\ pc[p] = "done" /\ op[p] \in VAOps
    /\ calls[p] = <<"operation">>
    /\ auth = "default"
    /\ resp[p].kind = "response" /\ resp[p].StatusCode = 401
    /\ accessToken = "tokA"

\* C26 (as claimed): the timestamp signed into the HMAC payload of a request
\* is the value of the request's X-TIMESTAMP header, also when the clock
\* advances while the request is built.
C26_SignedTimestampIsHeaderTimestamp ==
  [][\A p \in Callers :
       (pc[p] = "send" /\ pc'[p] = "wait")
       => req'[p].headers["X-TIMESTAMP"] = req'[p].signedTimestamp]_vars

\* C28: for every VA operation, a response whose status is not 200 and whose
\* body does not parse still yields a StructuredBRIAPIResponse, not a decoding
\* error, with empty ResponseCode and ResponseMessage and the status of the
\* response as HTTPStatusCode.
C28_UnparseableErrorBodyIsStructured ==
  \A p \in Callers :
    (/\ pc[p] = "done" /\ op[p] \in VAOps /\ OperationSent(p)
     /\ resp[p].kind = "response" /\ resp[p].readable
     /\ resp[p].StatusCode # 200
     /\ ~resp[p].body.valid)
    => /\ ret[p].resp = NilResp
       /\ ret[p].err.kind = "StructuredBRIAPIResponse"
       /\ ret[p].err.ResponseCode = <<>>
       /\ ret[p].err.ResponseMessage = ""
       /\ ret[p].err.HTTPStatusCode = resp[p].StatusCode

\* A VA operation has returned for a 500 response whose body is not JSON.
C28_Witness ==
  \E p \in Callers :
    /\ pc[p] = "done" /\ op[p] = "DeleteVirtualAccount" /\ OperationSent(p)
    /\ resp[p].kind = "response" /\ resp[p].readable
    /\ resp[p].StatusCode = 500
    /\ resp[p].body = InvalidBody
    /\ ret[p].err.kind = "StructuredBRIAPIResponse"
    /\ ret[p].err.HTTPStatusCode = 500

\* C29 (as claimed): GetCategory of a StructuredBRIAPIResponse that carries no
\* catalog definition, the zero value, is InternalServerError.
C29_ZeroValueIsInternalServerError ==
  \A p \in Callers :
    (/\ pc[p] = "done" /\ op[p] = "GetCategory"
     /\ arg[p].value = ZeroStructuredBRIAPIResponse)
    => ret[p].resp = "InternalServerError"

\* The decimal digit of value d.
DigitChar(d) ==
  CASE d = 0 -> "0" [] d = 1 -> "1" [] d = 2 -> "2" [] d = 3 -> "3" [] d = 4 -> "4"
    [] d = 5 -> "5" [] d = 6 -> "6" [] d = 7 -> "7" [] d = 8 -> "8" [] d = 9 -> "9"

\* The nine decimal digits of n, most significant first.
NineDigits(n) ==
  DigitChar((n \div 100000000) % 10) \o DigitChar((n \div 10000000) % 10) \o
  DigitChar((n \div 1000000) % 10) \o DigitChar((n \div 100000) % 10) \o
  DigitChar((n \div 10000) % 10) \o DigitChar((n \div 1000) % 10) \o
  DigitChar((n \div 100) % 10) \o DigitChar((n \div 10) % 10) \o DigitChar(n % 10)

C22_CheckIsNeverHeldBack ==
  \A p \in Callers :
    (pc[p] = "ensure" /\ auth = "default" /\ ~IsAuthenticated)
    => ENABLED (EnsureAuthenticated(p) /\ pc'[p] = "auth")

\* Every caller has found the client unauthenticated and has its own token
\* exchange in flight; no token has been stored yet.
C22_Witness ==
  /\ accessToken = "" /\ tokenExpiry = 0
  /\ \A p \in Callers : pc[p] = "authWait" /\ calls[p] = <<"token">>

\* The pair <<t, e>> is what one successful exchange, answered at some time up
\* to now, stores.
PairOfOneExchange(t, e) ==
  \E r \in ConcurrentTokenResponses, n \in 1 .. now :
    /\ authenticateError(r) = NoErr
    /\ t = UnmarshalAuthResponse(r.body).AccessToken
    /\ e = n + UnmarshalAuthResponse(r.body).ExpiresIn

\* C23 (as claimed): in every state the token and the expiry the client holds
\* come from the same exchange (or are both the initial ones): never the token
\* of one exchange with the expiry of another, nor a new token with the old
\* expiry.
C23_PairNeverTorn ==
  \/ accessToken = "" /\ tokenExpiry = 0
  \/ PairOfOneExchange(accessToken, tokenExpiry)

\* C27 (as claimed): the token signed into the HMAC payload of a request is
\* the token of the request's Authorization header, also when another
\* caller's exchange replaces the stored token while the request is built.
C27_SignedTokenIsBearerToken ==
  [][\A p \in Callers :
       (pc[p] = "send" /\ pc'[p] = "wait")
       => Get(req'[p].headers, "Authorization") =
            (IF req'[p].signedToken = "" THEN "" ELSE "Bearer " \o req'[p].signedToken)]_vars

====
